---- MODULE Spec2Model ----
(***************************************************************************)
(* Query-understanding and retrieval-orchestration pipeline of the         *)
(* financial Q&A system: validation, classification, decomposition,        *)
(* per-sub-query retrieval and synthesis.                                  *)
(*                                                                         *)
(* Text (Python str) is a sequence of one-character strings, so that       *)
(* substring tests, regular expressions, case conversion and formatting    *)
(* are computed and not assumed.  The characters are those of ASCII.       *)
(***************************************************************************)
EXTENDS Integers, Sequences, FiniteSets, TLC

VARIABLES
    pc,                \* position of the running operation
    entry,             \* the operation the caller invoked
    collection,        \* the chunks the vector index holds, in the order they were added
    collection_exists, \* the index holds the collection the store refers to
    pending,           \* batch: the queries not yet answered
    results,           \* batch: the answers accumulated
    raw_query,         \* the text the caller submitted
    query,             \* the text answer_query received
    query_type,        \* answer_query: the classified QueryType
    info,              \* answer_query: classification_info
    sub_queries,       \* answer_query: the decomposition
    retrieval_results, \* answer_query: insertion-ordered dict sub_query -> evidence
    next_sub,          \* answer_query: index of the next sub-query to retrieve
    response,          \* the record returned
    trace              \* observations: calls made, model behaviours, errors caught

vars == <<pc, entry, collection, collection_exists, pending, results, raw_query, query, query_type, info,
          sub_queries, retrieval_results, next_sub, response, trace>>

-----------------------------------------------------------------------------
\* Python str primitives

UpperChars == <<"A","B","C","D","E","F","G","H","I","J","K","L","M","N","O","P","Q","R","S","T","U","V","W","X","Y","Z">>
LowerChars == <<"a","b","c","d","e","f","g","h","i","j","k","l","m","n","o","p","q","r","s","t","u","v","w","x","y","z">>
DigitChars == <<"0","1","2","3","4","5","6","7","8","9">>

Min(S) == CHOOSE x \in S : \A y \in S : x <= y
Max(S) == CHOOSE x \in S : \A y \in S : x >= y

InSeq(seq, c) == \E i \in 1..Len(seq) : seq[i] = c
IndexOf(seq, c) == CHOOSE i \in 1..Len(seq) : seq[i] = c

lower_char(c) == IF InSeq(UpperChars, c) THEN LowerChars[IndexOf(UpperChars, c)] ELSE c
upper_char(c) == IF InSeq(LowerChars, c) THEN UpperChars[IndexOf(LowerChars, c)] ELSE c
lower(s) == [i \in 1..Len(s) |-> lower_char(s[i])]
upper(s) == [i \in 1..Len(s) |-> upper_char(s[i])]
\* str.title() of a word made of letters only
title(w) == [i \in 1..Len(w) |-> IF i = 1 THEN upper_char(w[i]) ELSE lower_char(w[i])]

\* str.isspace() on ASCII text, which str.strip(), str.split() and the regular
\* expression class \s share: space, \t, \n, \r, \f, and the characters U+000B
\* (vertical tab), U+001C, U+001D, U+001E and U+001F, written here as themselves
IsSpace(c) == c \in {" ", "\t", "\n", "\r", "\f", "", "", "", "", ""}
IsDigit(c) == InSeq(DigitChars, c)
IsWordChar(c) == InSeq(LowerChars, c) \/ InSeq(UpperChars, c) \/ IsDigit(c) \/ c = "_"

strip(s) ==
    LET keep == {i \in 1..Len(s) : ~IsSpace(s[i])}
    IN  IF keep = {} THEN <<>> ELSE SubSeq(s, Min(keep), Max(keep))

\* w occurs in s starting at index i
StartsAt(s, w, i) ==
    /\ i >= 1
    /\ i + Len(w) - 1 <= Len(s)
    /\ \A k \in 1..Len(w) : s[i + k - 1] = w[k]

\* Python: w in s
contains(s, w) == \E i \in 1..(Len(s) - Len(w) + 1) : StartsAt(s, w, i)

startswith(s, w) == StartsAt(s, w, 1)

\* str.split(): the maximal runs of non-whitespace, in order
split(s) ==
    LET starts == {i \in 1..Len(s) : ~IsSpace(s[i]) /\ (i = 1 \/ IsSpace(s[i - 1]))}
        EndOf(i) == Min({j \in i..Len(s) : j = Len(s) \/ IsSpace(s[j + 1])})
        Nth(k) == CHOOSE i \in starts : Cardinality({j \in starts : j < i}) = k - 1
    IN  [k \in 1..Cardinality(starts) |-> SubSeq(s, Nth(k), EndOf(Nth(k)))]

RECURSIVE join(_, _)
join(sep, words) ==
    IF Len(words) = 0 THEN <<>>
    ELSE IF Len(words) = 1 THEN words[1]
    ELSE words[1] \o sep \o join(sep, Tail(words))

\* str(n) of a non-negative int
RECURSIVE int_to_str(_)
int_to_str(n) ==
    IF n < 10 THEN <<DigitChars[n + 1]>>
    ELSE int_to_str(n \div 10) \o <<DigitChars[(n % 10) + 1]>>

\* int(s) of a string of digits
RECURSIVE str_to_int(_)
str_to_int(s) ==
    IF Len(s) = 0 THEN 0
    ELSE 10 * str_to_int(SubSeq(s, 1, Len(s) - 1)) + (IndexOf(DigitChars, s[Len(s)]) - 1)

\* sorted(list(set(...))) of a set of ints
sorted(S) == [k \in 1..Cardinality(S) |-> CHOOSE x \in S : Cardinality({y \in S : y < x}) = k - 1]

-----------------------------------------------------------------------------
\* Regular expressions (re.search): each combinator maps the set of positions
\* where a prefix of the pattern can end to the set where the longer prefix
\* can end; the pattern matches when the final set is not empty.

AnyPos(s) == 1..(Len(s) + 1)
Lit(s, P, w) == {i + Len(w) : i \in {p \in P : StartsAt(s, w, p)}}
Alt(s, P, ws) == UNION {Lit(s, P, w) : w \in ws}
\* .+  (one or more characters other than newline)
DotPlus(s, P) ==
    {j \in 2..(Len(s) + 1) : \E i \in P : i < j /\ \A k \in i..(j - 1) : s[k] # "\n"}
\* \d{n}
Digits(s, P, n) ==
    {i + n : i \in {p \in P : p + n - 1 <= Len(s) /\ \A k \in 0..(n - 1) : IsDigit(s[p + k])}}
\* \b at position i (between s[i-1] and s[i])
WordBoundary(s, i) ==
    (i > 1 /\ IsWordChar(s[i - 1])) # (i <= Len(s) /\ IsWordChar(s[i]))

-----------------------------------------------------------------------------
\* QueryProcessor (orchestrator.py)

MinQueryLen == 5
MaxQueryLen == 500

company_words == <<<<"g","o","o","g","l","e">>, <<"m","i","c","r","o","s","o","f","t">>, <<"n","v","i","d","i","a">>>>

\* QueryProcessor.preprocess_query.  The alias replacements (l.143-152) are
\* applied to query_lower, which is never read again: the words come from the
\* stripped query itself
preprocess_query(q) ==
    LET words == split(strip(q))
        processed_words ==
            [k \in 1..Len(words) |->
                IF InSeq(company_words, lower(words[k]))
                THEN title(lower(words[k])) ELSE words[k]]
    IN  join(<<" ">>, processed_words)

\* revenue income profit sales margin earnings financial money dollar billion
\* million growth year annual quarterly fiscal operating net
financial_keywords ==
    <<<<"r","e","v","e","n","u","e">>, <<"i","n","c","o","m","e">>, <<"p","r","o","f","i","t">>, <<"s","a","l","e","s">>, <<"m","a","r","g","i","n">>, <<"e","a","r","n","i","n","g","s">>,
      <<"f","i","n","a","n","c","i","a","l">>, <<"m","o","n","e","y">>, <<"d","o","l","l","a","r">>, <<"b","i","l","l","i","o","n">>, <<"m","i","l","l","i","o","n">>, <<"g","r","o","w","t","h">>,
      <<"y","e","a","r">>, <<"a","n","n","u","a","l">>, <<"q","u","a","r","t","e","r","l","y">>, <<"f","i","s","c","a","l">>, <<"o","p","e","r","a","t","i","n","g">>, <<"n","e","t">>>>

MsgTooShort == <<"Q","u","e","r","y"," ","t","o","o"," ","s","h","o","r","t">>
MsgTooLong == <<"Q","u","e","r","y"," ","t","o","o"," ","l","o","n","g">>
MsgNotFinancial == <<"Q","u","e","r","y"," ","d","o","e","s","n","'","t"," ","a","p","p","e","a","r"," ","t","o"," ","b","e"," ","f","i","n","a","n","c","i","a","l","-","r","e","l","a","t","e","d">>
MsgValid == <<"V","a","l","i","d"," ","q","u","e","r","y">>

\* validate_query with the upper length check off by one
validate_query_long_off_by_one(q) ==
    IF Len(strip(q)) < MinQueryLen THEN <<FALSE, MsgTooShort>>
    ELSE IF Len(q) >= MaxQueryLen THEN <<FALSE, MsgTooLong>>
    ELSE IF ~(\E k \in 1..Len(financial_keywords) : contains(lower(q), financial_keywords[k]))
         THEN <<FALSE, MsgNotFinancial>>
    ELSE <<TRUE, MsgValid>>

\* validate_query looking for the keywords without lower-casing the text
validate_query_case_sensitive(q) ==
    IF Len(strip(q)) < MinQueryLen THEN <<FALSE, MsgTooShort>>
    ELSE IF Len(q) > MaxQueryLen THEN <<FALSE, MsgTooLong>>
    ELSE IF ~(\E k \in 1..Len(financial_keywords) : contains(q, financial_keywords[k]))
         THEN <<FALSE, MsgNotFinancial>>
    ELSE <<TRUE, MsgValid>>

validate_query(q) ==
    IF Len(strip(q)) < MinQueryLen THEN <<FALSE, MsgTooShort>>
    ELSE IF Len(q) > MaxQueryLen THEN <<FALSE, MsgTooLong>>
    ELSE LET query_lower == lower(q)
             has_financial_keyword ==
                 \E k \in 1..Len(financial_keywords) : contains(query_lower, financial_keywords[k])
         IN  IF ~has_financial_keyword THEN <<FALSE, MsgNotFinancial>>
             ELSE <<TRUE, MsgValid>>

-----------------------------------------------------------------------------
\* QueryClassifier (query_classifier.py)

\* the members of the enumeration, in declaration order
QueryType == <<"SIMPLE_DIRECT", "COMPARATIVE_YOY", "CROSS_COMPANY",
               "COMPLEX_MULTI_ASPECT", "SEGMENT_ANALYSIS">>

\* QueryType.value
QueryTypeValue(t) ==
    CASE t = "SIMPLE_DIRECT" -> <<"s","i","m","p","l","e","_","d","i","r","e","c","t">>
      [] t = "COMPARATIVE_YOY" -> <<"c","o","m","p","a","r","a","t","i","v","e","_","y","o","y">>
      [] t = "CROSS_COMPANY" -> <<"c","r","o","s","s","_","c","o","m","p","a","n","y">>
      [] t = "COMPLEX_MULTI_ASPECT" -> <<"c","o","m","p","l","e","x","_","m","u","l","t","i","_","a","s","p","e","c","t">>
      [] t = "SEGMENT_ANALYSIS" -> <<"s","e","g","m","e","n","t","_","a","n","a","l","y","s","i","s">>

\* self.patterns: per type, whether one of its patterns is found in s
patterns(s) ==
    LET
        \* r"what (was|is) .+ (revenue|income|profit|margin)"
        PatSimple1 ==
            Alt(s, Lit(s, DotPlus(s, Lit(s, Alt(s, Lit(s, AnyPos(s), <<"w","h","a","t"," ">>),
                {<<"w","a","s">>, <<"i","s">>}), <<" ">>)), <<" ">>),
                {<<"r","e","v","e","n","u","e">>, <<"i","n","c","o","m","e">>, <<"p","r","o","f","i","t">>, <<"m","a","r","g","i","n">>}) # {}
        \* r"(revenue|income|sales|profit) .+ (in|for) \d{4}"
        PatSimple2 ==
            Digits(s, Lit(s, Alt(s, Lit(s, DotPlus(s, Lit(s, Alt(s, AnyPos(s),
                {<<"r","e","v","e","n","u","e">>, <<"i","n","c","o","m","e">>, <<"s","a","l","e","s">>, <<"p","r","o","f","i","t">>}), <<" ">>)), <<" ">>),
                {<<"i","n">>, <<"f","o","r">>}), <<" ">>), 4) # {}
        \* r"total .+ \d{4}"
        PatSimple3 ==
            Digits(s, Lit(s, DotPlus(s, Lit(s, AnyPos(s), <<"t","o","t","a","l"," ">>)), <<" ">>), 4) # {}
        \* r"(grow|growth|increase|decrease|change) .+ from \d{4} to \d{4}"
        PatYoy1 ==
            Digits(s, Lit(s, Digits(s, Lit(s, DotPlus(s, Lit(s, Alt(s, AnyPos(s),
                {<<"g","r","o","w">>, <<"g","r","o","w","t","h">>, <<"i","n","c","r","e","a","s","e">>, <<"d","e","c","r","e","a","s","e">>, <<"c","h","a","n","g","e">>}), <<" ">>)),
                <<" ","f","r","o","m"," ">>), 4), <<" ","t","o"," ">>), 4) # {}
        \* r"compare .+ \d{4} (and|to|vs) \d{4}"
        PatYoy2 ==
            Digits(s, Lit(s, Alt(s, Lit(s, Digits(s, Lit(s, DotPlus(s,
                Lit(s, AnyPos(s), <<"c","o","m","p","a","r","e"," ">>)), <<" ">>), 4), <<" ">>),
                {<<"a","n","d">>, <<"t","o">>, <<"v","s">>}), <<" ">>), 4) # {}
        \* r"(year over year|yoy|annually)"
        PatYoy3 ==
            Alt(s, AnyPos(s), {<<"y","e","a","r"," ","o","v","e","r"," ","y","e","a","r">>, <<"y","o","y">>, <<"a","n","n","u","a","l","l","y">>}) # {}
        \* r"which company .+ (highest|lowest|best|worst)"
        PatCross1 ==
            Alt(s, Lit(s, DotPlus(s, Lit(s, AnyPos(s), <<"w","h","i","c","h"," ","c","o","m","p","a","n","y"," ">>)), <<" ">>),
                {<<"h","i","g","h","e","s","t">>, <<"l","o","w","e","s","t">>, <<"b","e","s","t">>, <<"w","o","r","s","t">>}) # {}
        \* r"compare .+ (across|between) .+ (companies|google|microsoft|nvidia)"
        PatCross2 ==
            Alt(s, Lit(s, DotPlus(s, Lit(s, Alt(s, Lit(s, DotPlus(s,
                Lit(s, AnyPos(s), <<"c","o","m","p","a","r","e"," ">>)), <<" ">>), {<<"a","c","r","o","s","s">>, <<"b","e","t","w","e","e","n">>}), <<" ">>)),
                <<" ">>), {<<"c","o","m","p","a","n","i","e","s">>, <<"g","o","o","g","l","e">>, <<"m","i","c","r","o","s","o","f","t">>, <<"n","v","i","d","i","a">>}) # {}
        \* r"(google|microsoft|nvidia) .+ (vs|versus|compared to)"
        PatCross3 ==
            Alt(s, Lit(s, DotPlus(s, Lit(s, Alt(s, AnyPos(s),
                {<<"g","o","o","g","l","e">>, <<"m","i","c","r","o","s","o","f","t">>, <<"n","v","i","d","i","a">>}), <<" ">>)), <<" ">>),
                {<<"v","s">>, <<"v","e","r","s","u","s">>, <<"c","o","m","p","a","r","e","d"," ","t","o">>}) # {}
        \* r"percentage of .+ revenue"
        PatSegment1 ==
            Lit(s, DotPlus(s, Lit(s, AnyPos(s), <<"p","e","r","c","e","n","t","a","g","e"," ","o","f"," ">>)), <<" ","r","e","v","e","n","u","e">>) # {}
        \* r"what portion .+ came from"
        PatSegment2 ==
            Lit(s, DotPlus(s, Lit(s, AnyPos(s), <<"w","h","a","t"," ","p","o","r","t","i","o","n"," ">>)), <<" ","c","a","m","e"," ","f","r","o","m">>) # {}
        \* r"breakdown .+ by segment"
        PatSegment3 ==
            Lit(s, DotPlus(s, Lit(s, AnyPos(s), <<"b","r","e","a","k","d","o","w","n"," ">>)), <<" ","b","y"," ","s","e","g","m","e","n","t">>) # {}
    IN  << [type |-> "SIMPLE_DIRECT", found |-> PatSimple1 \/ PatSimple2 \/ PatSimple3],
           [type |-> "COMPARATIVE_YOY", found |-> PatYoy1 \/ PatYoy2 \/ PatYoy3],
           [type |-> "CROSS_COMPANY", found |-> PatCross1 \/ PatCross2 \/ PatCross3],
           [type |-> "SEGMENT_ANALYSIS", found |-> PatSegment1 \/ PatSegment2 \/ PatSegment3] >>

company_aliases ==
    << [name |-> <<"g","o","o","g","l","e">>, aliases |-> <<<<"g","o","o","g","l","e">>, <<"g","o","o","g","l">>, <<"a","l","p","h","a","b","e","t">>>>],
       [name |-> <<"m","i","c","r","o","s","o","f","t">>, aliases |-> <<<<"m","i","c","r","o","s","o","f","t">>, <<"m","s","f","t">>>>],
       [name |-> <<"n","v","i","d","i","a">>, aliases |-> <<<<"n","v","i","d","i","a">>, <<"n","v","d","a">>>>] >>

RECURSIVE extract_companies_loop(_, _, _, _)
extract_companies_loop(q, c, a, companies) ==
    IF c > Len(company_aliases) THEN companies
    ELSE IF a > Len(company_aliases[c].aliases) THEN extract_companies_loop(q, c + 1, 1, companies)
    ELSE extract_companies_loop(q, c, a + 1,
            IF contains(q, company_aliases[c].aliases[a]) /\ ~InSeq(companies, company_aliases[c].name)
            THEN Append(companies, upper(company_aliases[c].name))
            ELSE companies)

_extract_companies(q) == extract_companies_loop(q, 1, 1, <<>>)

YearMin == 2020
YearMax == 2025

\* re.findall(r'\b(20\d{2})\b', query), kept when in range, as a sorted set
_extract_years(q) ==
    LET year_matches ==
            {i \in 1..(Len(q) - 3) :
                /\ WordBoundary(q, i)
                /\ q[i] = "2" /\ q[i + 1] = "0" /\ IsDigit(q[i + 2]) /\ IsDigit(q[i + 3])
                /\ WordBoundary(q, i + 4)}
        years == {str_to_int(SubSeq(q, i, i + 3)) : i \in year_matches}
    IN  sorted({y \in years : YearMin <= y /\ y <= YearMax})

\* revenue sales income earnings profit margin "operating margin" "gross margin"
\* "net income" ebitda "cash flow" assets liabilities equity expenses r&d
\* "research and development" capex "operating expenses"
metric_keywords ==
    <<<<"r","e","v","e","n","u","e">>, <<"s","a","l","e","s">>, <<"i","n","c","o","m","e">>, <<"e","a","r","n","i","n","g","s">>, <<"p","r","o","f","i","t">>, <<"m","a","r","g","i","n">>,
      <<"o","p","e","r","a","t","i","n","g"," ","m","a","r","g","i","n">>, <<"g","r","o","s","s"," ","m","a","r","g","i","n">>, <<"n","e","t"," ","i","n","c","o","m","e">>, <<"e","b","i","t","d","a">>,
      <<"c","a","s","h"," ","f","l","o","w">>, <<"a","s","s","e","t","s">>, <<"l","i","a","b","i","l","i","t","i","e","s">>, <<"e","q","u","i","t","y">>, <<"e","x","p","e","n","s","e","s">>,
      <<"r","&","d">>, <<"r","e","s","e","a","r","c","h"," ","a","n","d"," ","d","e","v","e","l","o","p","m","e","n","t">>, <<"c","a","p","e","x">>, <<"o","p","e","r","a","t","i","n","g"," ","e","x","p","e","n","s","e","s">>>>

RECURSIVE extract_metrics_loop(_, _)
extract_metrics_loop(q, k) ==
    IF k > Len(metric_keywords) THEN <<>>
    ELSE (IF contains(q, metric_keywords[k]) THEN <<metric_keywords[k]>> ELSE <<>>)
         \o extract_metrics_loop(q, k + 1)

_extract_metrics(q) == extract_metrics_loop(q, 1)

None == "None"

\* _classify_by_patterns going on after a match, so that the last type found wins
_classify_by_patterns_last_match(q) ==
    LET tbl == patterns(lower(q))
        hit == {k \in 1..Len(tbl) : tbl[k].found}
    IN  IF hit = {} THEN None ELSE tbl[Max(hit)].type

_classify_by_patterns(q) ==
    LET tbl == patterns(lower(q))
        hit == {k \in 1..Len(tbl) : tbl[k].found}
    IN  IF hit = {} THEN None ELSE tbl[Min(hit)].type

\* _classify_with_llm taking the first category name found anywhere in the
\* response instead of comparing the whole response
_classify_with_llm_substring(q, llm) ==
    IF ~llm.ok THEN "COMPLEX_MULTI_ASPECT"
    ELSE LET classification == upper(strip(llm.text))
             same == {k \in 1..Len(QueryType) :
                        contains(classification, upper(QueryTypeValue(QueryType[k])))}
         IN  IF same # {} THEN QueryType[Min(same)] ELSE "COMPLEX_MULTI_ASPECT"

\* llm: the generative model's behaviour on this call, [ok, text]
_classify_with_llm(q, llm) ==
    IF ~llm.ok THEN "COMPLEX_MULTI_ASPECT"
    ELSE LET classification == upper(strip(llm.text))
             same == {k \in 1..Len(QueryType) : upper(QueryTypeValue(QueryType[k])) = classification}
         IN  IF same # {} THEN QueryType[Min(same)] ELSE "COMPLEX_MULTI_ASPECT"

complex_keywords ==
    <<<<"c","o","m","p","a","r","e">>, <<"g","r","o","w","t","h">>, <<"c","h","a","n","g","e">>, <<"r","a","t","i","o">>, <<"p","e","r","c","e","n","t","a","g","e">>, <<"b","r","e","a","k","d","o","w","n">>>>

_calculate_complexity(q, companies, years, metrics) ==
    1 + (IF Len(companies) > 1 THEN Len(companies) ELSE 0)
      + (IF Len(years) > 1 THEN Len(years) ELSE 0)
      + (IF Len(metrics) > 1 THEN Len(metrics) ELSE 0)
      + Cardinality({k \in 1..Len(complex_keywords) : contains(q, complex_keywords[k])})

\* classify_query: the returned (query_type, classification_info) and the
\* number of generative-model calls made
classify_query(q, llm) ==
    LET query_lower == lower(q)
        companies == _extract_companies(query_lower)
        years == _extract_years(query_lower)
        metrics == _extract_metrics(query_lower)
        by_patterns == _classify_by_patterns(query_lower)
        qt == IF by_patterns = None THEN _classify_with_llm(q, llm) ELSE by_patterns
    IN  [query_type |-> qt,
         info |-> [type |-> qt, companies |-> companies, years |-> years, metrics |-> metrics,
                   complexity_score |-> _calculate_complexity(query_lower, companies, years, metrics)],
         llm_calls |-> IF by_patterns = None THEN 1 ELSE 0]

-----------------------------------------------------------------------------
\* QueryDecomposer (query_classifier.py)

all_companies == <<<<"G","O","O","G","L">>, <<"M","S","F","T">>, <<"N","V","D","A">>>>
DefaultYear == 2023

\* f"{company} {metric} {year}"
FormatSubQuery(company, metric, year) ==
    company \o <<" ">> \o metric \o <<" ">> \o int_to_str(year)

\* _decompose_yoy_query expanding only when more than two years were found
_decompose_yoy_query_three_years(q, cinfo) ==
    LET companies == IF Len(cinfo.companies) = 0 THEN all_companies ELSE cinfo.companies
        metrics == IF Len(cinfo.metrics) = 0 THEN <<<<"r","e","v","e","n","u","e">>>> ELSE cinfo.metrics
        nm == Len(metrics)
        ny == Len(cinfo.years)
    IN  IF ny > 2
        THEN [k \in 1..(Len(companies) * nm * ny) |->
                FormatSubQuery(companies[((k - 1) \div (nm * ny)) + 1],
                               metrics[(((k - 1) \div ny) % nm) + 1],
                               cinfo.years[((k - 1) % ny) + 1])]
        ELSE <<q>>

_decompose_yoy_query(q, cinfo) ==
    LET companies == IF Len(cinfo.companies) = 0 THEN all_companies ELSE cinfo.companies
        years == cinfo.years
        metrics == IF Len(cinfo.metrics) = 0 THEN <<<<"r","e","v","e","n","u","e">>>> ELSE cinfo.metrics
        nm == Len(metrics)
        ny == Len(years)
        \* nested loops: company outermost, then metric, then year
        subs == IF ny >= 2
                THEN [k \in 1..(Len(companies) * nm * ny) |->
                        FormatSubQuery(companies[((k - 1) \div (nm * ny)) + 1],
                                       metrics[(((k - 1) \div ny) % nm) + 1],
                                       years[((k - 1) % ny) + 1])]
                ELSE <<>>
    IN  IF Len(subs) = 0 THEN <<q>> ELSE subs

\* info.get("companies", default): classify_query always sets the key, so the
\* default list is never taken
_decompose_cross_company_query(q, cinfo) ==
    LET companies == cinfo.companies
        years == cinfo.years
        metrics == IF Len(cinfo.metrics) = 0 THEN <<<<"o","p","e","r","a","t","i","n","g"," ","m","a","r","g","i","n">>>> ELSE cinfo.metrics
        nm == Len(metrics)
        target_year == IF Len(years) > 0 THEN years[1] ELSE DefaultYear
    IN  [k \in 1..(Len(companies) * nm) |->
            FormatSubQuery(companies[((k - 1) \div nm) + 1], metrics[((k - 1) % nm) + 1],
                           target_year)]

\* str.split(ch): the pieces between occurrences of ch, empty pieces included
split_on(s, ch) ==
    LET cuts == {i \in 1..Len(s) : s[i] = ch}
        bounds == sorted({0} \cup cuts \cup {Len(s) + 1})
    IN  [k \in 1..(Len(bounds) - 1) |-> SubSeq(s, bounds[k] + 1, bounds[k + 1] - 1)]

\* s without its first n characters and the whitespace that follows them
DropThenSpaces(s, n) ==
    LET rest == {i \in (n + 1)..Len(s) : ~IsSpace(s[i])}
    IN  IF rest = {} THEN <<>> ELSE SubSeq(s, Min(rest), Len(s))

\* re.sub(r'^\d+\.\s*', '', line)
StripNumberMarker(line) ==
    LET nondigit == {i \in 1..Len(line) : ~IsDigit(line[i])}
        n == IF nondigit = {} THEN Len(line) ELSE Min(nondigit) - 1
    IN  IF n >= 1 /\ n < Len(line) /\ line[n + 1] = "." THEN DropThenSpaces(line, n + 1)
        ELSE line

\* re.sub(r'^-\s*', '', line)
StripDashMarker(line) ==
    IF Len(line) >= 1 /\ line[1] = "-" THEN DropThenSpaces(line, 1) ELSE line

RECURSIVE parse_sub_queries(_)
parse_sub_queries(lines) ==
    IF Len(lines) = 0 THEN <<>>
    ELSE LET line == strip(lines[1])
         IN  (IF Len(line) > 0 /\ ~startswith(line, <<"S","u","b","-","q","u","e","r","i","e","s">>)
              THEN <<strip(StripDashMarker(StripNumberMarker(line)))>>
              ELSE <<>>) \o parse_sub_queries(Tail(lines))

\* _decompose_complex_query keeping the lines that start with "Sub-queries"
_decompose_complex_query_keep_header(q, cinfo, llm) ==
    IF ~llm.ok THEN <<q>>
    ELSE LET lines == split_on(strip(llm.text), "\n")
             kept == SelectSeq([i \in 1..Len(lines) |-> strip(lines[i])],
                               LAMBDA line : Len(line) > 0)
             subs == [i \in 1..Len(kept) |->
                         strip(StripDashMarker(StripNumberMarker(kept[i])))]
         IN  IF Len(subs) > 0 THEN subs ELSE <<q>>

_decompose_complex_query(q, cinfo, llm) ==
    IF ~llm.ok THEN <<q>>
    ELSE LET subs == parse_sub_queries(split_on(strip(llm.text), "\n"))
         IN  IF Len(subs) > 0 THEN subs ELSE <<q>>

\* _decompose_segment_query asking for the breakdown before the total
_decompose_segment_query_breakdown_first(q, cinfo) ==
    LET years == cinfo.years
        companies ==
            IF Len(cinfo.companies) > 0 THEN cinfo.companies
            ELSE IF contains(lower(q), <<"g","o","o","g","l","e">>) THEN <<<<"G","O","O","G","L">>>>
            ELSE IF contains(lower(q), <<"m","i","c","r","o","s","o","f","t">>) THEN <<<<"M","S","F","T">>>>
            ELSE IF contains(lower(q), <<"n","v","i","d","i","a">>) THEN <<<<"N","V","D","A">>>>
            ELSE all_companies
        target_year == IF Len(years) > 0 THEN years[1] ELSE DefaultYear
    IN  [k \in 1..(2 * Len(companies)) |->
            IF k % 2 = 0
            THEN companies[k \div 2] \o <<" ","t","o","t","a","l"," ","r","e","v","e","n","u","e"," ">> \o int_to_str(target_year)
            ELSE companies[(k + 1) \div 2] \o <<" ","s","e","g","m","e","n","t"," ","r","e","v","e","n","u","e"," ","b","r","e","a","k","d","o","w","n"," ">> \o int_to_str(target_year)]

_decompose_segment_query(q, cinfo) ==
    LET years == cinfo.years
        companies ==
            IF Len(cinfo.companies) > 0 THEN cinfo.companies
            ELSE IF contains(lower(q), <<"g","o","o","g","l","e">>) THEN <<<<"G","O","O","G","L">>>>
            ELSE IF contains(lower(q), <<"m","i","c","r","o","s","o","f","t">>) THEN <<<<"M","S","F","T">>>>
            ELSE IF contains(lower(q), <<"n","v","i","d","i","a">>) THEN <<<<"N","V","D","A">>>>
            ELSE all_companies
        target_year == IF Len(years) > 0 THEN years[1] ELSE DefaultYear
    IN  [k \in 1..(2 * Len(companies)) |->
            IF k % 2 = 1
            THEN companies[(k + 1) \div 2] \o <<" ","t","o","t","a","l"," ","r","e","v","e","n","u","e"," ">> \o int_to_str(target_year)
            ELSE companies[k \div 2] \o <<" ","s","e","g","m","e","n","t"," ","r","e","v","e","n","u","e"," ","b","r","e","a","k","d","o","w","n"," ">> \o int_to_str(target_year)]

\* decompose_query sending every type, SIMPLE_DIRECT included, to the model
decompose_query_always_llm(q, qt, cinfo, llm) ==
    [sub_queries |-> _decompose_complex_query(q, cinfo, llm), llm_calls |-> 1]

\* decompose_query: the returned list and the number of generative-model
\* calls made
decompose_query(q, qt, cinfo, llm) ==
    IF qt = "SIMPLE_DIRECT" THEN [sub_queries |-> <<q>>, llm_calls |-> 0]
    ELSE IF qt = "COMPARATIVE_YOY"
         THEN [sub_queries |-> _decompose_yoy_query(q, cinfo), llm_calls |-> 0]
    ELSE IF qt = "CROSS_COMPANY"
         THEN [sub_queries |-> _decompose_cross_company_query(q, cinfo), llm_calls |-> 0]
    ELSE IF qt = "COMPLEX_MULTI_ASPECT"
         THEN [sub_queries |-> _decompose_complex_query(q, cinfo, llm), llm_calls |-> 1]
    ELSE IF qt = "SEGMENT_ANALYSIS"
         THEN [sub_queries |-> _decompose_segment_query(q, cinfo), llm_calls |-> 0]
    ELSE [sub_queries |-> <<q>>, llm_calls |-> 0]

-----------------------------------------------------------------------------
\* The vector index (external service).  The index reports distances to four
\* decimal places: the `dist` of an indexed chunk is an integer number of
\* ten-thousandths (IndexDistanceOne is 1.0).  The `distance` of a result is an
\* integer number of hundred-thousandths (DistanceOne is 1.0), ten times what
\* the index reported, so that the product of a reported distance and a
\* factor 1 - 0.1 * k is a whole number and is held exactly.  The embedding of
\* a text is seen only through the distances it gives, so a text is reduced to
\* an embedding class and each indexed chunk carries one distance per class.

IndexDistanceOne == 10000
DistanceOne == 100000

TextRevenue == <<"T","o","t","a","l"," ","r","e","v","e","n","u","e"," ","w","a","s"," ","$","2","1","1",".","9"," ","b","i","l","l","i","o","n"," ","i","n"," ","f","i","s","c","a","l"," ","y","e","a","r"," ","2","0","2","3",","," ","a","n"," ","i","n","c","r","e","a","s","e"," ","o","f"," ","7","%"," ","o","v","e","r"," ","t","h","e"," ","p","r","i","o","r"," ","y","e","a","r","."," ","O","p","e","r","a","t","i","n","g"," ","i","n","c","o","m","e"," ","a","n","d"," ","n","e","t"," ","i","n","c","o","m","e"," ","b","o","t","h"," ","i","n","c","r","e","a","s","e","d",".">>
TextMargin == <<"G","r","o","s","s"," ","m","a","r","g","i","n"," ","i","m","p","r","o","v","e","d","!"," ","T","h","e"," ","o","p","e","r","a","t","i","n","g"," ","m","a","r","g","i","n"," ","o","f"," ","t","h","e"," ","c","o","m","p","a","n","y"," ","w","a","s"," ","4","2","%"," ","f","o","r"," ","t","h","e"," ","y","e","a","r",","," ","d","r","i","v","e","n"," ","b","y"," ","c","l","o","u","d"," ","s","a","l","e","s"," ","a","n","d"," ","l","o","w","e","r"," ","e","x","p","e","n","s","e","s","?">>
TextRisk == <<"R","i","s","k"," ","f","a","c","t","o","r","s"," ","i","n","c","l","u","d","e"," ","c","o","m","p","e","t","i","t","i","o","n",".">>
TextSegment == <<"A","d","v","e","r","t","i","s","i","n","g"," ","i","s"," ","t","h","e"," ","l","a","r","g","e","s","t"," ","s","e","g","m","e","n","t"," ","o","f"," ","t","h","e"," ","b","u","s","i","n","e","s","s"," ","a","n","d"," ","d","a","t","a"," ","c","e","n","t","e","r"," ","d","e","m","a","n","d"," ","w","a","s"," ","s","t","r","o","n","g"," ","a","c","r","o","s","s"," ","e","v","e","r","y"," ","r","e","g","i","o","n"," ","d","u","r","i","n","g"," ","t","h","e"," ","p","e","r","i","o","d","."," ","E","a","r","n","i","n","g","s"," ","p","e","r"," ","s","h","a","r","e"," ","r","o","s","e">>
TextKeywords == <<"R","e","v","e","n","u","e",","," ","n","e","t"," ","i","n","c","o","m","e",","," ","g","r","o","s","s"," ","p","r","o","f","i","t",","," ","o","p","e","r","a","t","i","n","g"," ","m","a","r","g","i","n",","," ","e","a","r","n","i","n","g","s"," ","p","e","r"," ","s","h","a","r","e"," ","a","n","d"," ","s","a","l","e","s"," ","a","l","l"," ","g","r","e","w",".">>

corpus_filings ==
    << [text |-> TextRevenue, company |-> <<"M","S","F","T">>, year |-> <<"2","0","2","3">>, section |-> <<"f","u","l","l","_","d","o","c","u","m","e","n","t">>, dist |-> <<1200, 3100>>],
       [text |-> TextMargin,  company |-> <<"M","S","F","T">>, year |-> <<"2","0","2","3">>, section |-> <<"f","i","n","a","n","c","i","a","l","_","s","t","a","t","e","m","e","n","t","s">>, dist |-> <<1500, 1500>>],
       [text |-> TextRisk,    company |-> <<"M","S","F","T">>, year |-> <<"2","0","2","2">>, section |-> <<"r","i","s","k","_","f","a","c","t","o","r","s">>, dist |-> <<2000, 4000>>],
       [text |-> TextRevenue, company |-> <<"M","S","F","T">>, year |-> <<"2","0","2","2">>, section |-> <<"f","u","l","l","_","d","o","c","u","m","e","n","t">>, dist |-> <<2000, 900>>],
       [text |-> TextSegment, company |-> <<"G","O","O","G","L">>, year |-> <<"2","0","2","3">>, section |-> <<"f","u","l","l","_","d","o","c","u","m","e","n","t">>, dist |-> <<2600, 700>>],
       [text |-> TextRevenue, company |-> <<"G","O","O","G","L">>, year |-> <<"2","0","2","3">>, section |-> <<"f","u","l","l","_","d","o","c","u","m","e","n","t">>, dist |-> <<2700, 2700>>],
       [text |-> TextMargin,  company |-> <<"G","O","O","G","L">>, year |-> <<"2","0","2","2">>, section |-> <<"f","i","n","a","n","c","i","a","l","_","s","t","a","t","e","m","e","n","t","s">>, dist |-> <<0, 5200>>],
       [text |-> TextSegment, company |-> <<"N","V","D","A">>, year |-> <<"2","0","2","4">>, section |-> <<"f","u","l","l","_","d","o","c","u","m","e","n","t">>, dist |-> <<3300, 300>>],
       [text |-> TextRevenue, company |-> <<"N","V","D","A">>, year |-> <<"2","0","2","3">>, section |-> <<"b","u","s","i","n","e","s","s">>, dist |-> <<4100, 10000>>],
       [text |-> TextMargin,  company |-> <<"N","V","D","A">>, year |-> <<"2","0","2","2">>, section |-> <<"f","u","l","l","_","d","o","c","u","m","e","n","t">>, dist |-> <<5000, 4400>>],
       [text |-> TextRisk,    company |-> <<"M","S","F","T">>, year |-> <<"2","0","2","4">>, section |-> <<"r","i","s","k","_","f","a","c","t","o","r","s">>, dist |-> <<6100, 6100>>] >>

\* a collection in which the keywords of a query decide which chunks come
\* first: two chunks equally far from every query, the second naming every
\* keyword, and four chunks nearer to one embedding class than to the other.
\* For a query of the second class that names all six keywords the third
\* chunk (0.2 * 0.8) and the second (0.4 * 0.4) have the same exact adjusted
\* distance, and the floats 0.16000000000000003 and 0.15999999999999998
corpus_keywords ==
    << [text |-> TextRisk,     company |-> <<"G","O","O","G","L">>, year |-> <<"2","0","2","2">>, section |-> <<"r","i","s","k","_","f","a","c","t","o","r","s">>, dist |-> <<4000, 4000>>],
       [text |-> TextKeywords, company |-> <<"N","V","D","A">>, year |-> <<"2","0","2","4">>, section |-> <<"f","i","n","a","n","c","i","a","l","_","s","t","a","t","e","m","e","n","t","s">>, dist |-> <<4000, 4000>>],
       [text |-> TextRevenue,  company |-> <<"M","S","F","T">>, year |-> <<"2","0","2","3">>, section |-> <<"b","u","s","i","n","e","s","s">>, dist |-> <<4100, 2000>>],
       [text |-> TextRisk,     company |-> <<"N","V","D","A">>, year |-> <<"2","0","2","3">>, section |-> <<"r","i","s","k","_","f","a","c","t","o","r","s">>, dist |-> <<8000, 1000>>],
       [text |-> TextSegment,  company |-> <<"G","O","O","G","L">>, year |-> <<"2","0","2","3">>, section |-> <<"b","u","s","i","n","e","s","s">>, dist |-> <<8500, 1100>>],
       [text |-> TextMargin,   company |-> <<"M","S","F","T">>, year |-> <<"2","0","2","2">>, section |-> <<"f","i","n","a","n","c","i","a","l","_","s","t","a","t","e","m","e","n","t","s">>, dist |-> <<9000, 1150>>] >>

\* the collections the index may hold when the store is opened: the filings,
\* nothing yet, the six chunks of corpus_keywords, or two chunks that are
\* both at distance 0 from every query, the second sharing keywords with a
\* query that the first does not
corpora ==
    << corpus_filings,
       <<>>,
       corpus_keywords,
       << [text |-> TextRisk,     company |-> <<"M","S","F","T">>, year |-> <<"2","0","2","3">>, section |-> <<"r","i","s","k","_","f","a","c","t","o","r","s">>, dist |-> <<0, 0>>],
          [text |-> TextKeywords, company |-> <<"M","S","F","T">>, year |-> <<"2","0","2","3">>, section |-> <<"f","i","n","a","n","c","i","a","l","_","s","t","a","t","e","m","e","n","t","s">>, dist |-> <<0, 0>>] >> >>

\* FinancialVectorStore.add_documents with _process_batch: the chunks are
\* embedded and added batch_size at a time, each with its text, its company,
\* its year as text and its section (no chunk has a "chunk_id", so each gets
\* an id of its own); embeddings[i] is what the embedding service answers for
\* chunks[i], seen as the distance to each embedding class.  failed_batch is
\* the batch whose embedding or addition raises, which ends the call with the
\* earlier batches added, and 0 when none does.
batch_size == 50
add_documents(stored, chunks, embeddings, failed_batch) ==
    LET added == IF failed_batch = 0 THEN Len(chunks) ELSE (failed_batch - 1) * batch_size
    IN  stored \o [i \in 1..added |->
                      [text |-> chunks[i].text, company |-> chunks[i].company,
                       year |-> int_to_str(chunks[i].year), section |-> chunks[i].section,
                       dist |-> embeddings[i]]]

\* the embedding class of a text
EmbeddingClass(text) == (Len(text) % 2) + 1

-----------------------------------------------------------------------------
\* Python float arithmetic (IEEE 754 binary64, round to nearest, ties to
\* even).  The program multiplies, subtracts, compares and rounds distances as
\* floats, and where two exact values coincide the floats decide: 0.01 * 0.9
\* is 0.009000000000000001 and 0.015 * 0.6 is 0.009.
\*
\* A natural number of any size is a sequence of limbs in base LimbBase, least
\* significant first and without a leading zero limb; a float is the record
\* [m |-> limbs, e |-> exponent] of value m * 2^e, m below 2^DoubleBits.
\* Distances are far from the subnormal and the overflow range.

LimbBits == 15
LimbBase == 32768
DoubleBits == 53
\* fraction bits computed by a division before it is rounded
QuotientBits == 75

RECURSIVE BigNorm(_)
BigNorm(a) == IF Len(a) > 0 /\ a[Len(a)] = 0 THEN BigNorm(SubSeq(a, 1, Len(a) - 1)) ELSE a

\* -1, 0, 1 as a is below, equal to or above b
BigCmp(a, b) ==
    IF Len(a) # Len(b) THEN (IF Len(a) < Len(b) THEN -1 ELSE 1)
    ELSE LET differ == {i \in 1..Len(a) : a[i] # b[i]}
         IN  IF differ = {} THEN 0
             ELSE IF a[Max(differ)] < b[Max(differ)] THEN -1 ELSE 1

BigAdd(a, b) ==
    LET n == IF Len(a) < Len(b) THEN Len(b) ELSE Len(a)
        Limb(x, i) == IF i <= Len(x) THEN x[i] ELSE 0
        RECURSIVE Sum(_, _)
        Sum(i, carry) ==
            IF i > n THEN (IF carry = 0 THEN <<>> ELSE <<carry>>)
            ELSE LET t == Limb(a, i) + Limb(b, i) + carry
                 IN  <<t % LimbBase>> \o Sum(i + 1, t \div LimbBase)
    IN  Sum(1, 0)

\* a - b, for b no larger than a
BigSub(a, b) ==
    LET Limb(x, i) == IF i <= Len(x) THEN x[i] ELSE 0
        RECURSIVE Diff(_, _)
        Diff(i, borrow) ==
            IF i > Len(a) THEN <<>>
            ELSE LET t == a[i] - Limb(b, i) - borrow
                 IN  <<IF t < 0 THEN t + LimbBase ELSE t>>
                     \o Diff(i + 1, IF t < 0 THEN 1 ELSE 0)
    IN  BigNorm(Diff(1, 0))

\* a * s, for 0 <= s < LimbBase
BigMulSmall(a, s) ==
    LET RECURSIVE Prod(_, _)
        Prod(i, carry) ==
            IF i > Len(a) THEN (IF carry = 0 THEN <<>> ELSE <<carry>>)
            ELSE LET t == a[i] * s + carry
                 IN  <<t % LimbBase>> \o Prod(i + 1, t \div LimbBase)
    IN  IF s = 0 THEN <<>> ELSE Prod(1, 0)

RECURSIVE BigMul(_, _)
BigMul(a, b) ==
    IF Len(a) = 0 \/ Len(b) = 0 THEN <<>>
    ELSE BigAdd(BigMulSmall(a, b[1]), BigNorm(<<0>> \o BigMul(a, Tail(b))))

\* quotient q and remainder r of a by s, for 0 < s < LimbBase
BigDivSmall(a, s) ==
    LET RECURSIVE Step(_, _)
        Step(i, rem) ==
            IF i = 0 THEN [q |-> <<>>, r |-> rem]
            ELSE LET cur == rem * LimbBase + a[i]
                     rest == Step(i - 1, cur % s)
                 IN  [q |-> rest.q \o <<cur \div s>>, r |-> rest.r]
        d == Step(Len(a), 0)
    IN  [q |-> BigNorm(d.q), r |-> d.r]

\* a * 2^n
BigShl(a, n) ==
    BigNorm([i \in 1..(n \div LimbBits) |-> 0] \o BigMulSmall(a, 2^(n % LimbBits)))

\* a / 2^sh rounded to the nearest integer, ties to even; `sticky` says that
\* the exact value lies above a, by less than one
BigRoundShift(a, sh, sticky) ==
    LET w == sh \div LimbBits
        b == sh % LimbBits
        \* the quotient q, and c that says how the remainder compares with a half
        Nearest(q, c) ==
            IF c > 0 \/ (c = 0 /\ (sticky \/ (Len(q) > 0 /\ q[1] % 2 = 1)))
            THEN BigAdd(q, <<1>>) ELSE q
    IN  IF sh = 0 THEN a
        ELSE Nearest(IF w >= Len(a) THEN <<>>
                     ELSE BigDivSmall(SubSeq(a, w + 1, Len(a)), 2^b).q,
                     BigCmp(IF w >= Len(a) THEN a
                            ELSE BigNorm(SubSeq(a, 1, w) \o <<a[w + 1] % (2^b)>>),
                            BigShl(<<1>>, sh - 1)))

\* the float nearest to n * 2^e (and to what lies just above it, if sticky)
FloatRound(n, e, sticky) ==
    LET bit_length ==
            IF Len(n) = 0 THEN 0
            ELSE LimbBits * (Len(n) - 1)
                 + (CHOOSE b \in 1..LimbBits : 2^(b - 1) <= n[Len(n)] /\ n[Len(n)] < 2^b)
        extra == bit_length - DoubleBits
    IN  IF extra <= 0 THEN [m |-> n, e |-> e]
        ELSE [m |-> BigRoundShift(n, extra, sticky), e |-> e + extra]

\* the float of the integer n, 0 <= n < LimbBase * LimbBase
FloatOfInt(n) == [m |-> BigNorm(<<n % LimbBase, n \div LimbBase>>), e |-> 0]

\* n / d for such an n and 0 < d < LimbBase, and so the float that a decimal
\* literal of value n/d denotes
FloatDiv(n, d) ==
    LET Rounded(x) == FloatRound(x.q, -QuotientBits, x.r # 0)
    IN  Rounded(BigDivSmall(BigShl(FloatOfInt(n).m, QuotientBits), d))

\* 1 - x; `neg` says that the difference is below zero and m * 2^e is its size
FloatOneMinus(x) ==
    LET e0 == IF x.e < 0 THEN x.e ELSE 0
        Signed(d, c) == [neg |-> c < 0, m |-> d.m, e |-> d.e]
        Subtract(one, xm, c) ==
            Signed(FloatRound(IF c >= 0 THEN BigSub(one, xm) ELSE BigSub(xm, one), e0, FALSE), c)
        Aligned(one, xm) == Subtract(one, xm, BigCmp(one, xm))
    IN  Aligned(BigShl(<<1>>, -e0), BigShl(x.m, x.e - e0))

\* result["distance"] as the float the program holds: the distance the index
\* reported, multiplied by 1 - 0.1 * keyword_matches if _hybrid_search lowered it
float_distance(result) ==
    LET k == IF "keyword_boost" \in DOMAIN result THEN result.keyword_boost ELSE 0
        FloatMul(x, y) == FloatRound(BigMul(x.m, y.m), x.e + y.e, FALSE)
        Lowered(reported) ==
            IF k = 0 THEN reported
            ELSE FloatMul(reported, FloatOneMinus(FloatMul(FloatDiv(1, 10), FloatOfInt(k))))
    IN  Lowered(FloatDiv(result.distance \div (10 - k), IndexDistanceOne))

\* x["distance"] < y["distance"]: two floats that differ in their exact values
\* differ the same way, two results with equal distance and equal boost hold
\* the same float, and otherwise the floats are compared
distance_less(x, y) ==
    LET boost(r) == IF "keyword_boost" \in DOMAIN r THEN r.keyword_boost ELSE 0
        \* a < b, for two floats that are not below zero
        FloatLess(a, b) ==
            LET e0 == IF a.e < b.e THEN a.e ELSE b.e
            IN  BigCmp(BigShl(a.m, a.e - e0), BigShl(b.m, b.e - e0)) < 0
    IN  \/ x.distance < y.distance
        \/ /\ x.distance = y.distance
           /\ boost(x) # boost(y)
           /\ FloatLess(float_distance(x), float_distance(y))

\* list.sort(key=lambda x: x["distance"]): ascending and stable
sort_by_distance(seq) ==
    LET \* less[j, i] says that seq[j] compares below seq[i]
        Sorted(less) ==
            LET Rank(i) == 1 + Cardinality({j \in 1..Len(seq) :
                            less[j, i] \/ (~less[i, j] /\ j < i)})
            IN  [k \in 1..Len(seq) |-> seq[CHOOSE i \in 1..Len(seq) : Rank(i) = k]]
    IN  Sorted([j \in 1..Len(seq), i \in 1..Len(seq) |-> distance_less(seq[j], seq[i])])

\* seq[:n]
Take(seq, n) == SubSeq(seq, 1, IF n < Len(seq) THEN n ELSE Len(seq))

\* a where clause maps a metadata key to [op |-> "$eq", value |-> a text] (the
\* plain form {key: value}) or to [op |-> "$in", value |-> a list of texts]
\* (the form {key: {"$in": [...]}}); the chunks that satisfy every entry
RECURSIVE where_matches(_, _)
where_matches(chunks, where) ==
    IF Len(chunks) = 0 THEN <<>>
    ELSE (IF \A key \in DOMAIN where :
                IF where[key].op = "$in"
                THEN InSeq(where[key].value, chunks[1][key])
                ELSE chunks[1][key] = where[key].value
          THEN <<chunks[1]>> ELSE <<>>)
         \o where_matches(Tail(chunks), where)

\* collection.query: the n_results nearest chunks that satisfy `where`
collection_query(corpus, cls, n_results, where) ==
    LET Scored(rows) ==
            [i \in 1..Len(rows) |->
                [text |-> rows[i].text, company |-> rows[i].company, year |-> rows[i].year,
                 section |-> rows[i].section, distance |-> rows[i].dist[cls]]]
        Nearest(scored) ==
            LET Rank(i) == 1 + Cardinality({j \in 1..Len(scored) :
                            \/ scored[j].distance < scored[i].distance
                            \/ (scored[j].distance = scored[i].distance /\ j < i)})
            IN  [k \in 1..Len(scored) |-> scored[CHOOSE i \in 1..Len(scored) : Rank(i) = k]]
    IN  Take(Nearest(Scored(where_matches(corpus, where))), n_results)

\* A value of the filters dict is [type |-> "str", value |-> the text] for a
\* str and [type |-> "list", value |-> the sequence of its texts] for a list
NoFilters == [key \in {} |-> [type |-> "str", value |-> <<>>]]

\* FinancialVectorStore.search, when neither the embedding call nor the
\* index raises: a list-valued filter becomes {"$in": value}, any other
\* value is matched as it is
search(corpus, q, n_results, filters) ==
    LET where_clause == [key \in DOMAIN filters |->
                            IF filters[key].type = "list"
                            THEN [op |-> "$in", value |-> filters[key].value]
                            ELSE [op |-> "$eq", value |-> filters[key].value]]
        Formatted(found) ==
            [i \in 1..Len(found) |->
                [text |-> found[i].text, company |-> found[i].company,
                 year |-> str_to_int(found[i].year), section |-> found[i].section,
                 distance |-> (DistanceOne \div IndexDistanceOne) * found[i].distance]]
    IN  Formatted(collection_query(corpus, EmbeddingClass(q), n_results, where_clause))

\* FinancialVectorStore.search_by_company_year; an absent (None) company is
\* the empty text and an absent year is 0, both falsy as in the source
search_by_company_year(corpus, q, company, year, n_results) ==
    LET with_company == IF Len(company) > 0
                        THEN [key \in {"company"} |-> [type |-> "str", value |-> company]]
                        ELSE NoFilters
        with_year == IF year # 0
                     THEN [key \in {"year"} |-> [type |-> "str", value |-> int_to_str(year)]]
                     ELSE NoFilters
    IN  search(corpus, q, n_results, with_company @@ with_year)

-----------------------------------------------------------------------------
\* RetrievalEngine (vector_store.py)

hybrid_keywords == <<<<"r","e","v","e","n","u","e">>, <<"i","n","c","o","m","e">>, <<"p","r","o","f","i","t">>, <<"m","a","r","g","i","n">>, <<"e","a","r","n","i","n","g","s">>, <<"s","a","l","e","s">>>>

_semantic_search(corpus, q, n_results) == search(corpus, q, n_results, NoFilters)

keyword_matches(q, text) ==
    Cardinality({k \in 1..Len(hybrid_keywords) :
        contains(lower(q), hybrid_keywords[k]) /\ contains(lower(text), hybrid_keywords[k])})

\* result["distance"] * (1 - 0.1 * keyword_matches), in hundred-thousandths;
\* the distance is ten times a reported one, so the quotient is exact
AdjustDistance(distance, matches) == (distance \div 10) * (10 - matches)

\* _hybrid_search without the final sort
_hybrid_search_unsorted(corpus, q, n_results) ==
    LET Boost(r, m) ==
            IF m > 0
            THEN [r EXCEPT !.distance = AdjustDistance(r.distance, m)] @@ [keyword_boost |-> m]
            ELSE r
        Boosted(semantic_results) ==
            [i \in 1..Len(semantic_results) |->
                Boost(semantic_results[i], keyword_matches(q, semantic_results[i].text))]
    IN  Boosted(search(corpus, q, n_results, NoFilters))

_hybrid_search(corpus, q, n_results) ==
    LET Boost(r, m) ==
            IF m > 0
            THEN [r EXCEPT !.distance = AdjustDistance(r.distance, m)] @@ [keyword_boost |-> m]
            ELSE r
        Boosted(semantic_results) ==
            [i \in 1..Len(semantic_results) |->
                Boost(semantic_results[i], keyword_matches(q, semantic_results[i].text))]
    IN  sort_by_distance(Boosted(search(corpus, q, n_results, NoFilters)))

\* n_results // len(companies) + 1 with the quotient rounded up
per_group_n_results_ceil(n_results, group) ==
    ((n_results + Len(group) - 1) \div Len(group)) + 1

\* n_results // len(companies) + 1, n_results // len(years) + 1
per_group_n_results(n_results, group) == (n_results \div Len(group)) + 1

RECURSIVE concat_all(_)
concat_all(lists) == IF Len(lists) = 0 THEN <<>> ELSE lists[1] \o concat_all(Tail(lists))

\* _company_focused_search returning the per-company results as concatenated
_company_focused_search_unsorted(corpus, q, companies, n_results) ==
    LET all_results == concat_all([c \in 1..Len(companies) |->
            search_by_company_year(corpus, q, companies[c], 0,
                                   per_group_n_results(n_results, companies))])
    IN  Take(all_results, n_results)

_company_focused_search(corpus, q, companies, n_results) ==
    LET all_results == concat_all([c \in 1..Len(companies) |->
            search_by_company_year(corpus, q, companies[c], 0,
                                   per_group_n_results(n_results, companies))])
    IN  Take(sort_by_distance(all_results), n_results)

_temporal_search(corpus, q, years, n_results) ==
    LET all_results == concat_all([y \in 1..Len(years) |->
            search_by_company_year(corpus, q, <<>>, years[y],
                                   per_group_n_results(n_results, years))])
    IN  Take(sort_by_distance(all_results), n_results)

\* the n_results of the index searches a strategy issues, in order
IssuedSearches(strategy, group, n_results) ==
    IF strategy \in {"company_focused", "temporal"}
    THEN [i \in 1..Len(group) |-> per_group_n_results(n_results, group)]
    ELSE <<n_results>>

retrieve_for_query(corpus, q, strategy, group, n_results) ==
    IF strategy = "semantic" THEN _semantic_search(corpus, q, n_results)
    ELSE IF strategy = "hybrid" THEN _hybrid_search(corpus, q, n_results)
    ELSE IF strategy = "company_focused" THEN _company_focused_search(corpus, q, group, n_results)
    ELSE IF strategy = "temporal" THEN _temporal_search(corpus, q, group, n_results)
    ELSE _semantic_search(corpus, q, n_results)

\* result["metadata"].get("chunk_id", result["text"][:100]): the metadata
\* _process_batch stores has no "chunk_id" key
ChunkIdChars == 100
chunk_id(result) == Take(result.text, ChunkIdChars)

\* the loops of multi_query_retrieval: results of queries[q] from position i
\* on, then those of the later queries; `seen` is seen_chunks.  The call of
\* retrieve_for_query passes n_results only: _company_focused_search is then
\* called without `companies` and _temporal_search without `years`, the
\* positional argument each requires, and the TypeError ends the call
RECURSIVE merge_results(_, _, _, _, _, _, _)
merge_results(corpus, queries, strategy, n, q, i, seen) ==
    IF q > Len(queries) THEN <<>>
    ELSE IF strategy \in {"company_focused", "temporal"} THEN [raised |-> "TypeError"]
    ELSE LET Merge(query_results) ==
                 IF i > Len(query_results)
                 THEN merge_results(corpus, queries, strategy, n, q + 1, 1, seen)
                 ELSE LET result == query_results[i]
                      IN  IF chunk_id(result) \in seen
                          THEN merge_results(corpus, queries, strategy, n, q, i + 1, seen)
                          ELSE <<result @@ [source_query |-> queries[q]]>>
                               \o merge_results(corpus, queries, strategy, n, q, i + 1,
                                                seen \cup {chunk_id(result)})
         IN  Merge(retrieve_for_query(corpus, queries[q], strategy, <<>>, n))

multi_query_retrieval(corpus, queries, strategy, n_results_per_query) ==
    LET \* the sort is reached unless the loops ended with the TypeError
        Sorted(all_results) ==
            IF Len(queries) > 0 /\ strategy \in {"company_focused", "temporal"}
            THEN all_results
            ELSE sort_by_distance(all_results)
    IN  Sorted(merge_results(corpus, queries, strategy, n_results_per_query, 1, 1, {}))

-----------------------------------------------------------------------------
\* FinancialQAAgent._execute_retrieval (orchestrator.py)

NResults == 6

\* temporal chosen for every year-over-year query, also over no years
SelectStrategy_temporal_without_years(qt, cinfo) ==
    IF qt = "CROSS_COMPANY" THEN [strategy |-> "company_focused", group |-> cinfo.companies]
    ELSE IF qt = "COMPARATIVE_YOY"
         THEN [strategy |-> "temporal", group |-> cinfo.years]
    ELSE [strategy |-> "hybrid", group |-> <<>>]

\* the strategy and the companies / years it is restricted to
SelectStrategy(qt, cinfo) ==
    IF qt = "CROSS_COMPANY" THEN [strategy |-> "company_focused", group |-> cinfo.companies]
    ELSE IF qt = "COMPARATIVE_YOY" /\ Len(cinfo.years) > 0
         THEN [strategy |-> "temporal", group |-> cinfo.years]
    ELSE [strategy |-> "hybrid", group |-> <<>>]

_execute_retrieval(corpus, sub_query, qt, cinfo) ==
    LET sel == SelectStrategy(qt, cinfo)
    IN  retrieve_for_query(corpus, sub_query, sel.strategy, sel.group, NResults)

-----------------------------------------------------------------------------
\* ResultSynthesizer (synthesizer.py)

\* the maximal runs of characters of s that satisfy mask, in order
runs(s, mask) ==
    LET starts == {i \in 1..Len(s) : mask[i] /\ (i = 1 \/ ~mask[i - 1])}
        EndOf(i) == Min({j \in i..Len(s) : j = Len(s) \/ ~mask[j + 1]})
        Nth(k) == CHOOSE i \in starts : Cardinality({j \in starts : j < i}) = k - 1
    IN  [k \in 1..Cardinality(starts) |-> SubSeq(s, Nth(k), EndOf(Nth(k)))]

\* a dict with insertion order: a sequence of [key, value], keys distinct
dict_keys(d) == [i \in 1..Len(d) |-> d[i].key]
dict_set(d, k, v) ==
    IF \E i \in 1..Len(d) : d[i].key = k
    THEN [i \in 1..Len(d) |-> IF d[i].key = k THEN [key |-> k, value |-> v] ELSE d[i]]
    ELSE Append(d, [key |-> k, value |-> v])
dict_get(d, k) == d[CHOOSE i \in 1..Len(d) : d[i].key = k].value

ContextChars == 500

\* text[:500] + "..." if len(text) > 500 else text
TruncateText(text, n) == IF Len(text) > n THEN SubSeq(text, 1, n) \o <<".",".",".">> ELSE text

TopContext == 3

RECURSIVE context_parts(_)
context_parts(d) ==
    IF Len(d) = 0 THEN <<>>
    ELSE LET sub_query == d[1].key
             top == Take(d[1].value, TopContext)
         IN  (IF Len(top) > 0
              THEN <<<<"R","e","s","u","l","t","s"," ","f","o","r"," ","'">> \o sub_query \o <<"'",":">>>>
                   \o [i \in 1..Len(top) |->
                        <<" "," ","[">> \o int_to_str(i) \o <<"]"," ">> \o top[i].company \o <<" ">>
                        \o int_to_str(top[i].year) \o <<":"," ">> \o TruncateText(top[i].text, ContextChars)]
                   \o << <<>> >>
              ELSE <<>>) \o context_parts(Tail(d))

\* _prepare_context with a heading for the sub-queries without evidence too
_prepare_context_empty_headings(d) ==
    join(<<"\n">>, context_parts(d)
                 \o SelectSeq([i \in 1..Len(d) |-> <<"R","e","s","u","l","t","s"," ","f","o","r"," ","'">> \o d[i].key \o <<"'",":">>],
                              LAMBDA h : \E i \in 1..Len(d) :
                                  h = <<"R","e","s","u","l","t","s"," ","f","o","r"," ","'">> \o d[i].key \o <<"'",":">> /\ Len(d[i].value) = 0))

_prepare_context(d) == join(<<"\n">>, context_parts(d))

\* re.search(label + r'\s*(.+?)(?=' + stop + r'|$)', content, re.DOTALL) on a
\* stripped content: <<matched, group(1)>>
SearchField(content, label, stop) ==
    LET at == {p \in 1..Len(content) : StartsAt(content, label, p)}
        p == Min(at)
        rest == {i \in (p + Len(label))..Len(content) : ~IsSpace(content[i])}
        s == Min(rest)
        ends == {e \in (s + 1)..(Len(content) + 1) :
                    e = Len(content) + 1 \/ StartsAt(content, stop, e)}
    IN  IF at = {} \/ rest = {} THEN <<FALSE, <<>>>>
        ELSE <<TRUE, SubSeq(content, s, Min(ends) - 1)>>

\* re.search(r'CONFIDENCE:\s*(\w+)', content): <<matched, group(1)>>
SearchConfidence(content) ==
    LET label == <<"C","O","N","F","I","D","E","N","C","E",":">>
        WordAt(p) ==
            LET rest == {i \in (p + Len(label))..Len(content) : ~IsSpace(content[i])}
            IN  IF rest = {} \/ ~IsWordChar(content[Min(rest)]) THEN 0 ELSE Min(rest)
        at == {p \in 1..Len(content) : StartsAt(content, label, p) /\ WordAt(p) # 0}
        s == WordAt(Min(at))
        stop == {e \in s..Len(content) : e = Len(content) \/ ~IsWordChar(content[e + 1])}
    IN  IF at = {} THEN <<FALSE, <<>>>> ELSE <<TRUE, SubSeq(content, s, Min(stop))>>

SynthesisErrorAnswer == <<"E","r","r","o","r"," ","o","c","c","u","r","r","e","d"," ","d","u","r","i","n","g"," ","s","y","n","t","h","e","s","i","s">>
GeneratedReasoning == <<"G","e","n","e","r","a","t","e","d"," ","f","r","o","m"," ","a","v","a","i","l","a","b","l","e"," ","c","o","n","t","e","x","t">>

\* _get_llm_response whose fallback fills in only the fields that were not parsed
_get_llm_response_keep_parsed(llm) ==
    IF ~llm.ok
    THEN [answer |-> SynthesisErrorAnswer,
          reasoning |-> <<"S","y","n","t","h","e","s","i","s"," ","e","r","r","o","r",":"," ">> \o llm.text,
          confidence |-> <<"l","o","w">>]
    ELSE LET content == strip(llm.text)
             answer_match == SearchField(content, <<"A","N","S","W","E","R",":">>, <<"R","E","A","S","O","N","I","N","G",":">>)
             reasoning_match == SearchField(content, <<"R","E","A","S","O","N","I","N","G",":">>, <<"C","O","N","F","I","D","E","N","C","E",":">>)
             confidence_match == SearchConfidence(content)
             parsed ==
                 (IF answer_match[1] THEN [answer |-> strip(answer_match[2])] ELSE <<>>)
                 @@ (IF reasoning_match[1] THEN [reasoning |-> strip(reasoning_match[2])] ELSE <<>>)
                 @@ (IF confidence_match[1] THEN [confidence |-> lower(confidence_match[2])] ELSE <<>>)
         IN  IF "answer" \notin DOMAIN parsed \/ Len(parsed.answer) = 0
             THEN [f \in {"reasoning", "confidence"} \cap DOMAIN parsed |-> parsed[f]]
                  @@ [answer |-> content, reasoning |-> GeneratedReasoning, confidence |-> <<"m","e","d","i","u","m">>]
             ELSE parsed

\* _get_llm_response: the dict answer_data; llm is the model's behaviour [ok, text]
_get_llm_response(llm) ==
    IF ~llm.ok
    THEN [answer |-> SynthesisErrorAnswer,
          reasoning |-> <<"S","y","n","t","h","e","s","i","s"," ","e","r","r","o","r",":"," ">> \o llm.text,
          confidence |-> <<"l","o","w">>]
    ELSE LET content == strip(llm.text)
             answer_match == SearchField(content, <<"A","N","S","W","E","R",":">>, <<"R","E","A","S","O","N","I","N","G",":">>)
             reasoning_match == SearchField(content, <<"R","E","A","S","O","N","I","N","G",":">>, <<"C","O","N","F","I","D","E","N","C","E",":">>)
             confidence_match == SearchConfidence(content)
             parsed ==
                 (IF answer_match[1] THEN [answer |-> strip(answer_match[2])] ELSE <<>>)
                 @@ (IF reasoning_match[1] THEN [reasoning |-> strip(reasoning_match[2])] ELSE <<>>)
                 @@ (IF confidence_match[1] THEN [confidence |-> lower(confidence_match[2])] ELSE <<>>)
         IN  IF "answer" \notin DOMAIN parsed \/ Len(parsed.answer) = 0
             THEN [answer |-> content, reasoning |-> GeneratedReasoning, confidence |-> <<"m","e","d","i","u","m">>]
             ELSE parsed

\* round(1.0 - result["distance"], 3), in thousandths.  round() gives the
\* thousandth nearest to the float 1.0 - distance (ties to even); the exact
\* difference decides which one that is unless it lies halfway between two
\* thousandths, where the float itself is rounded
relevance_score(result) ==
    LET exact == DistanceOne - result.distance
        Size(n) == (IF Len(n) > 0 THEN n[1] ELSE 0) + (IF Len(n) > 1 THEN n[2] * LimbBase ELSE 0)
        Signed(size, neg) == IF neg THEN -size ELSE size
        Thousandths(f) ==
            Signed(Size(IF f.e < 0 THEN BigRoundShift(BigMulSmall(f.m, 1000), -f.e, FALSE)
                        ELSE BigShl(BigMulSmall(f.m, 1000), f.e)),
                   f.neg)
    IN  IF exact % 100 # 50 THEN (exact + 50) \div 100
        ELSE Thousandths(FloatOneMinus(float_distance(result)))

ExcerptChars == 200
SentenceMinChars == 50

\* the first of the sentences with the highest positive score
RECURSIVE best_sentence(_, _, _, _)
best_sentence(sentences, query_terms, best, max_score) ==
    IF Len(sentences) = 0 THEN best
    ELSE LET sentence == sentences[1]
             score == Cardinality({t \in 1..Len(query_terms) :
                          contains(lower(sentence), query_terms[t])})
         IN  IF Len(sentence) > SentenceMinChars /\ score > max_score
             THEN best_sentence(Tail(sentences), query_terms, strip(sentence), score)
             ELSE best_sentence(Tail(sentences), query_terms, best, max_score)

_extract_meaningful_excerpt(text, q) ==
    LET ql == lower(q)
        \* re.findall(r'\b\w+\b', query.lower())
        query_terms == runs(ql, [i \in 1..Len(ql) |-> IsWordChar(ql[i])])
        \* re.split(r'[.!?]+', text); the empty pieces are never long enough
        sentences == runs(text, [i \in 1..Len(text) |-> text[i] \notin {".", "!", "?"}])
        best == best_sentence(sentences, query_terms, <<>>, 0)
    IN  IF Len(best) > 0 THEN TruncateText(best, ExcerptChars)
        ELSE TruncateText(text, ExcerptChars)

TopSources == 2
MaxSources == 5

\* f"{company}_{year}_{section}"
SourceId(r) == r.company \o <<"_">> \o int_to_str(r.year) \o <<"_">> \o r.section

\* the loop of _extract_sources over the (sub_query, result) pairs in order:
\* acc is [sources, seen_sources]
RECURSIVE extract_sources_loop(_, _)
extract_sources_loop(pairs, acc) ==
    IF Len(pairs) = 0 THEN acc
    ELSE LET sub_query == pairs[1][1]
             result == pairs[1][2]
             source_id == SourceId(result)
         IN  extract_sources_loop(Tail(pairs),
                IF source_id \in acc.seen_sources THEN acc
                ELSE [sources |-> Append(acc.sources,
                          [company |-> result.company, year |-> result.year,
                           excerpt |-> _extract_meaningful_excerpt(result.text, sub_query),
                           section |-> result.section,
                           relevance_score |-> relevance_score(result)]),
                      seen_sources |-> acc.seen_sources \cup {source_id}])

\* _extract_sources listing a source for every result, seen before or not
_extract_sources_all(d) ==
    LET pairs == concat_all([i \in 1..Len(d) |->
                    [j \in 1..Len(Take(d[i].value, TopSources)) |-> <<d[i].key, d[i].value[j]>>]])
    IN  Take([k \in 1..Len(pairs) |->
                [company |-> pairs[k][2].company, year |-> pairs[k][2].year,
                 excerpt |-> _extract_meaningful_excerpt(pairs[k][2].text, pairs[k][1]),
                 section |-> pairs[k][2].section,
                 relevance_score |-> relevance_score(pairs[k][2])]],
             MaxSources)

_extract_sources(d) ==
    LET pairs == concat_all([i \in 1..Len(d) |->
                    [j \in 1..Len(Take(d[i].value, TopSources)) |-> <<d[i].key, d[i].value[j]>>]])
    IN  Take(extract_sources_loop(pairs, [sources |-> <<>>, seen_sources |-> {}]).sources,
             MaxSources)

DefaultReasoning == <<"U","n","a","b","l","e"," ","t","o"," ","p","r","o","c","e","s","s"," ","t","h","e"," ","a","v","a","i","l","a","b","l","e"," ","d","a","t","a",".">>

\* synthesize_answer: each of the four prompt templates ends in one
\* _get_llm_response call, so the query type does not change the result
synthesize_answer(q, subs, d, qt_value, llm) ==
    LET answer_data == _get_llm_response(llm)
    IN  [query |-> q,
         answer |-> answer_data.answer,
         reasoning |-> IF "reasoning" \in DOMAIN answer_data THEN answer_data.reasoning
                       ELSE DefaultReasoning,
         sub_queries |-> subs,
         sources |-> _extract_sources(d),
         confidence |-> IF "confidence" \in DOMAIN answer_data THEN answer_data.confidence
                        ELSE <<"l","o","w">>]

-----------------------------------------------------------------------------
\* Inputs and behaviours of the external services

MaxBatch == 2

Pad(n, ch) == [i \in 1..n |-> ch]

\* "What was Microsoft's total revenue in 2023?"
QRevenue == <<"W","h","a","t"," ","w","a","s"," ","M","i","c","r","o","s","o","f","t","'","s"," ","t","o","t","a","l"," ","r","e","v","e","n","u","e"," ","i","n"," ","2","0","2","3","?">>
\* "How much did Microsoft's cloud revenue grow from 2022 to 2023?"
QCloudGrowth == <<"H","o","w"," ","m","u","c","h"," ","d","i","d"," ","M","i","c","r","o","s","o","f","t","'","s"," ","c","l","o","u","d"," ","r","e","v","e","n","u","e"," ","g","r","o","w"," ","f","r","o","m"," ","2","0","2","2"," ","t","o"," ","2","0","2","3","?">>
\* "What's the weather today?"
QWeather == <<"W","h","a","t","'","s"," ","t","h","e"," ","w","e","a","t","h","e","r"," ","t","o","d","a","y","?">>
\* "What are the main AI risks mentioned by each company and how do they differ?"
QRisks == <<"W","h","a","t"," ","a","r","e"," ","t","h","e"," ","m","a","i","n"," ","A","I"," ","r","i","s","k","s"," ","m","e","n","t","i","o","n","e","d"," ","b","y"," ","e","a","c","h"," ","c","o","m","p","a","n","y"," ","a","n","d"," ","h","o","w"," ","d","o"," ","t","h","e","y"," ","d","i","f","f","e","r","?">>
\* "Which company had the highest operating margin in 2023?"
QHighestMargin == <<"W","h","i","c","h"," ","c","o","m","p","a","n","y"," ","h","a","d"," ","t","h","e"," ","h","i","g","h","e","s","t"," ","o","p","e","r","a","t","i","n","g"," ","m","a","r","g","i","n"," ","i","n"," ","2","0","2","3","?">>
\* "which company is the best"
QBest == <<"w","h","i","c","h"," ","c","o","m","p","a","n","y"," ","i","s"," ","t","h","e"," ","b","e","s","t">>
\* "What percentage of Google's 2023 revenue came from advertising?"
QSegment == <<"W","h","a","t"," ","p","e","r","c","e","n","t","a","g","e"," ","o","f"," ","G","o","o","g","l","e","'","s"," ","2","0","2","3"," ","r","e","v","e","n","u","e"," ","c","a","m","e"," ","f","r","o","m"," ","a","d","v","e","r","t","i","s","i","n","g","?">>
\* "compare nvidia and msft sales and income 2021 to 2022 and 2023"
QCompare == <<"c","o","m","p","a","r","e"," ","n","v","i","d","i","a"," ","a","n","d"," ","m","s","f","t"," ","s","a","l","e","s"," ","a","n","d"," ","i","n","c","o","m","e"," ","2","0","2","1"," ","t","o"," ","2","0","2","2"," ","a","n","d"," ","2","0","2","3">>
\* "How did NVDA revenue change a lot from 2023 to 2024?"
QChange == <<"H","o","w"," ","d","i","d"," ","N","V","D","A"," ","r","e","v","e","n","u","e"," ","c","h","a","n","g","e"," ","a"," ","l","o","t"," ","f","r","o","m"," ","2","0","2","3"," ","t","o"," ","2","0","2","4","?">>
\* queries that patterns of several types match
QSimpleYoy == <<"w","h","a","t"," ","i","s"," ","g","o","o","g","l","e"," ","r","e","v","e","n","u","e"," ","y","o","y">>
QYoyCrossSegment == <<"n","v","i","d","i","a"," ","y","o","y"," ","v","s"," ","p","e","r","c","e","n","t","a","g","e"," ","o","f"," ","d","a","t","a"," ","r","e","v","e","n","u","e">>
QCrossSegment == <<"w","h","i","c","h"," ","c","o","m","p","a","n","y"," ","h","a","s"," ","t","h","e"," ","b","e","s","t"," ","p","e","r","c","e","n","t","a","g","e"," ","o","f"," ","c","l","o","u","d"," ","r","e","v","e","n","u","e">>
\* "yoy 2021 vs 2022"
QYoyDefaults == <<"y","o","y"," ","2","0","2","1"," ","v","s"," ","2","0","2","2">>
\* "revenue growth year over year"
QYoyNoYears == <<"r","e","v","e","n","u","e"," ","g","r","o","w","t","h"," ","y","e","a","r"," ","o","v","e","r"," ","y","e","a","r">>
\* "Microsoft operating margin vs Google"
QVersus == <<"M","i","c","r","o","s","o","f","t"," ","o","p","e","r","a","t","i","n","g"," ","m","a","r","g","i","n"," ","v","s"," ","G","o","o","g","l","e">>
\* "  NVIDIA SALES\t"
QUpper == <<" "," ","N","V","I","D","I","A"," ","S","A","L","E","S","\t">>
\* the shortest and longest texts that pass the length checks, and their neighbours
QShortest == <<"s","a","l","e","s">>
QTooShort == <<"d","e","b","t">>
\* padded with a vertical tab (U+000B) and U+001C among the blanks
QBlankPadded == <<" ","","n","e","t",""," "," ">>
QLongest == Pad(MaxQueryLen - 7, "x") \o <<"r","e","v","e","n","u","e">>
QTooLong == Pad(MaxQueryLen - 6, "x") \o <<"r","e","v","e","n","u","e">>
QLongestPadded == <<" ">> \o QLongest
QBlankLong == Pad(MaxQueryLen, " ") \o <<"n","e","t">>

Queries ==
    {QRevenue, QCloudGrowth, QWeather, QRisks, QHighestMargin, QBest, QSegment, QCompare,
     QChange, QYoyDefaults, QYoyNoYears, QSimpleYoy, QYoyCrossSegment, QCrossSegment, QVersus, QUpper, QShortest, QTooShort, QBlankPadded, QLongest,
     QTooLong, QLongestPadded, QBlankLong}

\* the queries answer_query is answering when _execute_retrieval is called
ClassifiedQueries == {QBest, QHighestMargin, QVersus, QChange, QYoyNoYears, QRevenue, QSegment, QRisks}

\* the lists a batch may be given
BatchQueries == {QRevenue, QBest}
Batches == UNION {[1..n -> BatchQueries] : n \in 0..MaxBatch}

\* a behaviour of the generative model on one call: the text of the response,
\* or an error with its message
LlmError == [ok |-> FALSE, text |-> <<"m","o","d","e","l"," ","u","n","a","v","a","i","l","a","b","l","e">>]
Says(text) == [ok |-> TRUE, text |-> text]

ClassifyResponses ==
    {LlmError, Says(<<"S","I","M","P","L","E","_","D","I","R","E","C","T">>), Says(<<" ","c","o","m","p","a","r","a","t","i","v","e","_","y","o","y","","\n">>),
     Says(<<"S","E","G","M","E","N","T","_","A","N","A","L","Y","S","I","S">>), Says(<<"T","h","i","s"," ","i","s"," ","a"," ","C","R","O","S","S","_","C","O","M","P","A","N","Y"," ","q","u","e","r","y",".">>),
     Says(<<"C","o","m","p","l","e","x","_","M","u","l","t","i","_","A","s","p","e","c","t">>)}

DecomposeResponses ==
    {LlmError, Says(<<>>),
     Says(<<"1",".","","M","S","F","T"," ","r","e","v","e","n","u","e"," ","2","0","2","3","\n","2","."," ","M","S","F","T"," ","r","e","v","e","n","u","e"," ","2","0","2","2","">>),
     Says(<<"S","u","b","-","q","u","e","r","i","e","s",":","\n","-"," ","G","O","O","G","L"," ","o","p","e","r","a","t","i","n","g"," ","m","a","r","g","i","n"," ","2","0","2","3","\n","\n","2",".","\n","-">>),
     Says(<<"S","u","b","-","q","u","e","r","i","e","s",":","\n">>),
     Says(<<"1","."," ","M","S","F","T"," ","f","i","l","i","n","g"," ","r","i","s","k","s"," ","2","0","2","3","\n","2","."," ","M","S","F","T"," ","r","e","v","e","n","u","e"," ","i","n"," ","2","0","2","3","\n","3","."," ","N","V","D","A"," ","o","u","t","l","o","o","k"," ","2","0","2","3","\n","4","."," ","M","S","F","T"," ","m","a","r","g","i","n","s"," ","2","0","2","2">>)}

SynthesisResponses ==
    {LlmError,
     Says(<<"A","N","S","W","E","R",":"," ","R","e","v","e","n","u","e"," ","w","a","s"," ","$","2","1","1",".","9"," ","b","i","l","l","i","o","n",".","\n","R","E","A","S","O","N","I","N","G",":"," ","S","t","a","t","e","d"," ","i","n"," ","t","h","e"," ","1","0","-","K",".","\n","C","O","N","F","I","D","E","N","C","E",":"," ","h","i","g","h">>),
     Says(<<""," ","T","h","e"," ","f","i","l","i","n","g","s"," ","d","o"," ","n","o","t"," ","s","a","y",".","\n">>),
     Says(<<"R","E","A","S","O","N","I","N","G",":"," ","n","o","t","h","i","n","g"," ","f","o","u","n","d","\n","C","O","N","F","I","D","E","N","C","E",":"," ","l","o","w">>),
     Says(<<"A","N","S","W","E","R",":"," ","A","b","o","u","t"," ","7","%","\n","C","O","N","F","I","D","E","N","C","E",":"," ","V","e","r","y"," ","h","i","g","h">>)}

IndexErrorText == <<"i","n","d","e","x"," ","u","n","a","v","a","i","l","a","b","l","e">>

\* the messages of the exceptions a search or an addition can end with: the
\* embedding service or the index is unavailable, or the index no longer
\* holds the collection the store refers to
IndexErrors ==
    IF collection_exists THEN {IndexErrorText}
    ELSE {IndexErrorText, <<"C","o","l","l","e","c","t","i","o","n"," ","f","i","n","a","n","c","i","a","l","_","f","i","l","i","n","g","s"," ","d","o","e","s"," ","n","o","t"," ","e","x","i","s","t",".">>}

-----------------------------------------------------------------------------
\* process_single_query (main.py) and FinancialQAAgent (orchestrator.py)

ResponseFields == {"query", "answer", "reasoning", "sub_queries", "sources", "confidence"}

\* the record process_single_query returns for a rejected query
invalid_response(q, message) ==
    [query |-> q,
     answer |-> <<"I","n","v","a","l","i","d"," ","q","u","e","r","y",":"," ">> \o message,
     reasoning |-> <<"Q","u","e","r","y"," ","v","a","l","i","d","a","t","i","o","n"," ","f","a","i","l","e","d">>,
     sub_queries |-> <<>>,
     sources |-> <<>>,
     confidence |-> <<"l","o","w">>]

\* an except clause that reports the error without the full record
answer_query_except_partial(q, e) ==
    [query |-> q, error |-> e, confidence |-> <<"m","e","d","i","u","m">>]

\* the except clause of answer_query
answer_query_except(q, e) ==
    [query |-> q,
     answer |-> <<"A","n"," ","e","r","r","o","r"," ","o","c","c","u","r","r","e","d"," ","w","h","i","l","e"," ","p","r","o","c","e","s","s","i","n","g"," ","y","o","u","r"," ","q","u","e","r","y",":"," ">> \o e,
     reasoning |-> <<"S","y","s","t","e","m"," ","e","r","r","o","r"," ","d","u","r","i","n","g"," ","p","r","o","c","e","s","s","i","n","g">>,
     sub_queries |-> <<>>,
     sources |-> <<>>,
     confidence |-> <<"l","o","w">>]

NoTrace ==
    [classified |-> <<>>,      \* every text classify_query was called on
     validated |-> <<>>,       \* the text validate_query was called on, if any
     validation |-> <<>>,      \* and what it returned
     classify_llm |-> <<>>,    \* the model's behaviour on the classification call
     decompose_llm |-> <<>>,   \* ... on the decomposition call
     synth_llm |-> <<>>,       \* ... on the synthesis call
     caught |-> FALSE,         \* the except clause of answer_query ran
     failed_sub |-> 0,         \* the sub-query whose retrieval raised
     batch |-> <<>>,           \* the queries batch_answer_queries was called with
     requested |-> <<>>,       \* the n_results of every search the index answered
     raised |-> FALSE,         \* the call ended with an exception instead of returning
     context |-> <<>>]         \* the evidence text put in the synthesis prompt

Init ==
    /\ pc = "idle"
    /\ entry = "none"
    /\ collection \in {corpora[c] : c \in 1..Len(corpora)}
    /\ collection_exists = TRUE
    /\ pending = <<>>
    /\ results = <<>>
    /\ raw_query = <<>>
    /\ query = <<>>
    /\ query_type = None
    /\ info = <<>>
    /\ sub_queries = <<>>
    /\ retrieval_results = <<>>
    /\ next_sub = 0
    /\ response = <<>>
    /\ trace = NoTrace

\* answer_query is entered with q
EnterAnswerQuery(q) ==
    /\ pc' = "classify"
    /\ query' = q
    /\ query_type' = None
    /\ info' = <<>>
    /\ sub_queries' = <<>>
    /\ retrieval_results' = <<>>
    /\ next_sub' = 0
    /\ response' = <<>>

InvocationTrace(t) ==
    [t EXCEPT !.classify_llm = <<>>, !.decompose_llm = <<>>, !.synth_llm = <<>>,
              !.caught = FALSE, !.failed_sub = 0, !.requested = <<>>,
              !.raised = FALSE,
              !.context = <<>>]

\* QueryProcessor.validate_query called on its own
ValidateQuery(q) ==
    /\ pc = "idle"
    /\ entry' = "validate_query"
    /\ raw_query' = q
    /\ trace' = [trace EXCEPT !.validated = <<q>>, !.validation = validate_query(q)]
    /\ response' = validate_query(q)
    /\ pc' = "done"
    /\ UNCHANGED <<collection, collection_exists, pending, results, query, query_type, info, sub_queries,
                   retrieval_results, next_sub>>

ProcessSingleQuery(q) ==
    /\ pc = "idle"
    /\ entry' = "process_single_query"
    /\ raw_query' = q
    /\ LET Validated(processed_query, valid) ==
               /\ trace' = [trace EXCEPT !.validated = <<processed_query>>, !.validation = valid]
               /\ IF ~valid[1]
                  THEN /\ response' = invalid_response(q, valid[2])
                       /\ pc' = "done"
                       /\ UNCHANGED <<query, query_type, info, sub_queries, retrieval_results,
                                      next_sub>>
                  ELSE EnterAnswerQuery(processed_query)
           Processed(processed_query) ==
               Validated(processed_query, validate_query(processed_query))
       IN  Processed(preprocess_query(q))
    /\ UNCHANGED <<collection, collection_exists, pending, results>>

AnswerQuery(q) ==
    /\ pc = "idle"
    /\ entry' = "answer_query"
    /\ raw_query' = q
    /\ EnterAnswerQuery(q)
    /\ UNCHANGED <<collection, collection_exists, pending, results, trace>>

BatchAnswerQueries(queries) ==
    /\ pc = "idle"
    /\ entry' = "batch_answer_queries"
    /\ pending' = queries
    /\ results' = <<>>
    /\ pc' = "batch"
    /\ trace' = [trace EXCEPT !.batch = queries]
    /\ UNCHANGED <<collection, collection_exists, raw_query, query, query_type, info, sub_queries,
                   retrieval_results, next_sub, response>>

\* the loop of batch_answer_queries: answer the next query, or return
BatchNext ==
    /\ pc = "batch"
    /\ IF Len(pending) = 0
       THEN /\ pc' = "done"
            /\ response' = results
            /\ UNCHANGED <<raw_query, query, query_type, info, sub_queries, retrieval_results,
                           next_sub, trace>>
       ELSE /\ raw_query' = Head(pending)
            /\ EnterAnswerQuery(Head(pending))
            /\ trace' = InvocationTrace(trace)
    /\ UNCHANGED <<entry, collection, collection_exists, pending, results>>

Classify ==
    /\ pc = "classify"
    /\ \E llm \in ClassifyResponses :
         LET AfterClassification(c) ==
                 /\ query_type' = c.query_type
                 /\ info' = c.info
                 /\ trace' = [trace EXCEPT !.classified = Append(@, query),
                                           !.classify_llm = IF c.llm_calls > 0 THEN <<llm>>
                                                            ELSE <<>>]
         IN  AfterClassification(classify_query(query, llm))
    /\ pc' = "decompose"
    /\ UNCHANGED <<entry, collection, collection_exists, pending, results, raw_query, query, sub_queries,
                   retrieval_results, next_sub, response>>

Decompose ==
    /\ pc = "decompose"
    /\ \E llm \in DecomposeResponses :
         LET AfterDecomposition(d) ==
                 /\ sub_queries' = d.sub_queries
                 /\ trace' = [trace EXCEPT !.decompose_llm = IF d.llm_calls > 0 THEN <<llm>>
                                                             ELSE <<>>]
         IN  AfterDecomposition(decompose_query(query, query_type, info, llm))
    /\ retrieval_results' = <<>>
    /\ next_sub' = 1
    /\ pc' = "retrieve"
    /\ UNCHANGED <<entry, collection, collection_exists, pending, results, raw_query, query, query_type, info,
                   response>>

\* one pass of the retrieval loop: the evidence of the next sub-query is
\* stored.  The searches are answered only while the index holds the collection
Retrieve ==
    /\ pc = "retrieve"
    /\ next_sub <= Len(sub_queries)
    /\ LET sel == SelectStrategy(query_type, info)
       IN  collection_exists \/ IssuedSearches(sel.strategy, sel.group, NResults) = <<>>
    /\ retrieval_results' = dict_set(retrieval_results, sub_queries[next_sub],
            _execute_retrieval(collection, sub_queries[next_sub], query_type, info))
    /\ next_sub' = next_sub + 1
    /\ LET sel == SelectStrategy(query_type, info)
       IN  trace' = [trace EXCEPT !.requested =
                        @ \o IssuedSearches(sel.strategy, sel.group, NResults)]
    /\ UNCHANGED <<pc, entry, collection, collection_exists, pending, results, raw_query, query, query_type, info,
                   sub_queries, response>>

\* one pass of the retrieval loop in which the embedding call or the index
\* raises on one of the searches of the retrieval, after the index answered
\* the searches before it (on the first search when the index no longer holds
\* the collection): nothing in _execute_retrieval or the loop catches it, so
\* the except clause of answer_query returns
RetrieveRaises ==
    /\ pc = "retrieve"
    /\ next_sub <= Len(sub_queries)
    /\ LET sel == SelectStrategy(query_type, info)
           Raising(searches) ==
               \E failing \in 1..Len(searches) :
                   /\ collection_exists \/ failing = 1
                   /\ trace' = [trace EXCEPT !.caught = TRUE, !.failed_sub = next_sub,
                                             !.requested = @ \o Take(searches, failing - 1)]
       IN  Raising(IssuedSearches(sel.strategy, sel.group, NResults))
    /\ \E error \in IndexErrors : response' = answer_query_except(query, error)
    /\ pc' = "return"
    /\ UNCHANGED <<entry, collection, collection_exists, pending, results, raw_query, query, query_type, info,
                   sub_queries, retrieval_results, next_sub>>

\* synthesis starting while the last sub-query is still to be retrieved
SynthesizeBeforeLastRetrieval ==
    /\ pc = "retrieve"
    /\ next_sub >= Len(sub_queries)
    /\ \E llm \in SynthesisResponses :
         /\ response' = synthesize_answer(query, sub_queries, retrieval_results,
                                          QueryTypeValue(query_type), llm)
         /\ trace' = [trace EXCEPT !.synth_llm = <<llm>>,
                                   !.context = _prepare_context(retrieval_results)]
    /\ pc' = "return"
    /\ UNCHANGED <<entry, collection, collection_exists, pending, results, raw_query, query, query_type, info,
                   sub_queries, retrieval_results, next_sub>>

Synthesize ==
    /\ pc = "retrieve"
    /\ next_sub > Len(sub_queries)
    /\ \E llm \in SynthesisResponses :
         /\ response' = synthesize_answer(query, sub_queries, retrieval_results,
                                          QueryTypeValue(query_type), llm)
         /\ trace' = [trace EXCEPT !.synth_llm = <<llm>>,
                                   !.context = _prepare_context(retrieval_results)]
    /\ pc' = "return"
    /\ UNCHANGED <<entry, collection, collection_exists, pending, results, raw_query, query, query_type, info,
                   sub_queries, retrieval_results, next_sub>>

\* a return after which batch_answer_queries gives up on the remaining
\* queries when the answer came from the except clause
ReturnStoppingBatchOnError ==
    /\ pc = "return"
    /\ IF entry = "batch_answer_queries"
       THEN /\ results' = Append(results, response)
            /\ pending' = IF trace.caught THEN <<>> ELSE Tail(pending)
            /\ pc' = "batch"
       ELSE /\ pc' = "done"
            /\ UNCHANGED <<results, pending>>
    /\ UNCHANGED <<entry, collection, collection_exists, raw_query, query, query_type, info, sub_queries,
                   retrieval_results, next_sub, response, trace>>

\* answer_query returns to its caller
Return ==
    /\ pc = "return"
    /\ IF entry = "batch_answer_queries"
       THEN /\ results' = Append(results, response)
            /\ pending' = Tail(pending)
            /\ pc' = "batch"
       ELSE /\ pc' = "done"
            /\ UNCHANGED <<results, pending>>
    /\ UNCHANGED <<entry, collection, collection_exists, raw_query, query, query_type, info, sub_queries,
                   retrieval_results, next_sub, response, trace>>

\* the arguments RetrievalEngine.retrieve_for_query is called with on its own
SearchTexts ==
    {<<"M","S","F","T"," ","i","n","c","o","m","e"," ","2","0","2","3">>, <<"G","O","O","G","L"," ","o","p","e","r","a","t","i","n","g"," ","m","a","r","g","i","n"," ","2","0","2","3">>,
     <<"r","e","v","e","n","u","e"," ","i","n","c","o","m","e"," ","p","r","o","f","i","t"," ","m","a","r","g","i","n"," ","e","a","r","n","i","n","g","s"," ","s","a","l","e","s">>}
SearchRequests ==
    [strategy : {"semantic", "hybrid"}, group : {<<>>}, n_results : {2, NResults}]
    \cup [strategy : {"company_focused"},
          group : {<<<<"N","V","D","A">>, <<"M","S","F","T">>>>, <<<<"G","O","O","G","L">>, <<"M","S","F","T">>, <<"N","V","D","A">>>>, <<<<"M","I","C","R","O","S","O","F","T">>>>},
          n_results : {2, NResults}]
    \cup [strategy : {"temporal"}, group : {<<2023, 2022>>, <<2024>>, <<2021, 2022>>},
          n_results : {2, NResults}]

\* RetrievalEngine.retrieve_for_query called on its own.  failing is the
\* search of the retrieval on which the embedding call or the index raises,
\* after the index answered the searches before it, and 0 when every search
\* is answered: nothing in search, the strategies or retrieve_for_query
\* catches it, so the call ends with the exception
RetrieveForQuery(q, request) ==
    /\ pc = "idle"
    /\ entry' = "retrieve_for_query"
    /\ raw_query' = q
    /\ info' = request
    /\ LET Outcome(searches) ==
             \E failing \in 0..Len(searches), error \in IndexErrors :
               /\ collection_exists \/ searches = <<>> \/ failing = 1
               /\ response' = IF failing = 0
                               THEN retrieve_for_query(collection, q, request.strategy,
                                                       request.group, request.n_results)
                               ELSE [raised |-> error]
               /\ trace' = [trace EXCEPT
                                !.requested = IF failing = 0 THEN searches
                                              ELSE Take(searches, failing - 1),
                                !.raised = failing # 0]
       IN  Outcome(IssuedSearches(request.strategy, request.group, request.n_results))
    /\ pc' = "done"
    /\ UNCHANGED <<collection, collection_exists, pending, results, query, query_type, sub_queries,
                   retrieval_results, next_sub>>

\* FinancialQAAgent._execute_retrieval as answer_query calls it: with the
\* classification of q and a sub-query of the decomposition of q (none when
\* the decomposition is empty).  failing is the search on which the embedding
\* call or the index raises (0 when none does); _execute_retrieval catches
\* nothing
ExecuteRetrieval(q) ==
    /\ pc = "idle"
    /\ entry' = "_execute_retrieval"
    /\ \E llm \in ClassifyResponses, decompose_llm \in DecomposeResponses :
         LET AfterClassification(c) ==
                 LET Outcome(sub_query, searches) ==
                       \E failing \in 0..Len(searches), error \in IndexErrors :
                         /\ collection_exists \/ searches = <<>> \/ failing = 1
                         /\ raw_query' = sub_query
                         /\ response' = IF failing = 0
                                         THEN _execute_retrieval(collection, sub_query,
                                                                 c.query_type, c.info)
                                         ELSE [raised |-> error]
                         /\ trace' = [trace EXCEPT
                                          !.requested = IF failing = 0 THEN searches
                                                        ELSE Take(searches, failing - 1),
                                          !.raised = failing # 0]
                     AfterDecomposition(d) ==
                       \E sub \in 1..Len(d.sub_queries) :
                         LET sel == SelectStrategy(c.query_type, c.info)
                         IN  Outcome(d.sub_queries[sub],
                                     IssuedSearches(sel.strategy, sel.group, NResults))
                 IN  /\ info' = c.info
                     /\ AfterDecomposition(decompose_query(q, c.query_type, c.info,
                                                           decompose_llm))
         IN  AfterClassification(classify_query(q, llm))
    /\ pc' = "done"
    /\ UNCHANGED <<collection, collection_exists, pending, results, query, query_type, sub_queries,
                   retrieval_results, next_sub>>

\* the arguments RetrievalEngine.multi_query_retrieval is called with
PerQueryDefault == 5
MultiQueryRequests ==
    [queries : UNION {[1..n -> SearchTexts] : n \in 0..2},
     strategy : {"semantic", "hybrid", "company_focused", "temporal"},
     n_results : {2, PerQueryDefault}]

\* RetrievalEngine.multi_query_retrieval called on its own: one search per
\* query, and none when the strategy needs companies or years, which the call
\* does not pass (TypeError on the first query).  failing is the search on
\* which the embedding call or the index raises (0 when none does); nothing
\* in multi_query_retrieval catches it
MultiQueryRetrieval(request) ==
    /\ pc = "idle"
    /\ entry' = "multi_query_retrieval"
    /\ info' = request
    /\ LET Outcome(searches) ==
             \E failing \in 0..Len(searches), error \in IndexErrors :
               /\ collection_exists \/ searches = <<>> \/ failing = 1
               /\ response' = IF failing = 0
                               THEN multi_query_retrieval(collection, request.queries,
                                                          request.strategy, request.n_results)
                               ELSE [raised |-> error]
               /\ trace' = [trace EXCEPT
                                !.requested = IF failing = 0 THEN searches
                                              ELSE Take(searches, failing - 1),
                                !.raised = \/ failing # 0
                                           \/ /\ Len(request.queries) > 0
                                              /\ request.strategy \in {"company_focused",
                                                                        "temporal"}]
       IN  Outcome(IF request.strategy \in {"company_focused", "temporal"}
                   THEN <<>>
                   ELSE [query_no \in 1..Len(request.queries) |-> request.n_results])
    /\ pc' = "done"
    /\ UNCHANGED <<collection, collection_exists, pending, results, raw_query, query, query_type, sub_queries,
                   retrieval_results, next_sub>>

\* the arguments FinancialVectorStore.add_documents is called with, and the
\* embeddings the service gives them: no chunks, or the six chunks that
\* corpus_keywords holds
AddRequests ==
    {[chunks |-> <<>>, embeddings |-> <<>>],
     [chunks |-> [i \in 1..Len(corpus_keywords) |->
                    [text |-> corpus_keywords[i].text, company |-> corpus_keywords[i].company,
                     year |-> str_to_int(corpus_keywords[i].year),
                     section |-> corpus_keywords[i].section]],
      embeddings |-> [i \in 1..Len(corpus_keywords) |-> corpus_keywords[i].dist]]}

\* the most chunks the index is taken to hold once chunks were added to it
MaxIndexed == 6

\* FinancialVectorStore.add_documents called on its own; it returns None, or
\* raises what the embedding service or the index raised.  When the index no
\* longer holds the collection the addition of the first batch raises
AddDocuments(request, failed_batch) ==
    /\ pc = "idle"
    /\ request.chunks = <<>> \/ Len(collection) + Len(request.chunks) <= MaxIndexed
    /\ collection_exists \/ request.chunks = <<>> \/ failed_batch = 1
    /\ entry' = "add_documents"
    /\ collection' = add_documents(collection, request.chunks, request.embeddings, failed_batch)
    /\ \E error \in IndexErrors :
          response' = IF failed_batch = 0 THEN None ELSE [raised |-> error]
    /\ trace' = [trace EXCEPT !.raised = failed_batch # 0]
    /\ pc' = "done"
    /\ UNCHANGED <<collection_exists, pending, results, raw_query, query, query_type, info, sub_queries,
                   retrieval_results, next_sub>>

\* FinancialVectorStore.clear_collection called on its own: the collection is
\* deleted and created again, empty.  delete_collection raises when the index
\* is unavailable or holds no such collection, which the call passes over;
\* create_collection raises when the index is unavailable or still holds the
\* collection, which ends the call with that exception and leaves the index
\* as the delete left it
ClearCollection ==
    /\ pc = "idle"
    /\ entry' = "clear_collection"
    /\ \E delete_raises, create_raises \in BOOLEAN :
         LET kept == collection_exists /\ delete_raises
         IN  /\ collection_exists \/ delete_raises
             /\ collection' = IF kept THEN collection ELSE <<>>
             /\ collection_exists' = (kept \/ ~create_raises)
             /\ response' = IF create_raises THEN [raised |-> IndexErrorText]
                            ELSE IF kept
                            THEN [raised |-> <<"C","o","l","l","e","c","t","i","o","n"," ","f","i","n","a","n","c","i","a","l","_","f","i","l","i","n","g","s"," ","a","l","r","e","a","d","y"," ","e","x","i","s","t","s">>]
                            ELSE None
             /\ trace' = [trace EXCEPT !.raised = kept \/ create_raises]
    /\ pc' = "done"
    /\ UNCHANGED <<pending, results, raw_query, query, query_type, info, sub_queries,
                   retrieval_results, next_sub>>

\* the call has returned and the caller makes its next one: what the call
\* held is gone, the index stays as the call left it
NextCall ==
    /\ pc = "done"
    /\ pc' = "idle"
    /\ entry' = "none"
    /\ pending' = <<>>
    /\ results' = <<>>
    /\ raw_query' = <<>>
    /\ query' = <<>>
    /\ query_type' = None
    /\ info' = <<>>
    /\ sub_queries' = <<>>
    /\ retrieval_results' = <<>>
    /\ next_sub' = 0
    /\ response' = <<>>
    /\ trace' = NoTrace
    /\ UNCHANGED <<collection, collection_exists>>

Next ==
    \/ \E q \in Queries : ValidateQuery(q)
    \/ \E q \in Queries : ProcessSingleQuery(q)
    \/ \E q \in Queries : AnswerQuery(q)
    \/ \E queries \in Batches : BatchAnswerQueries(queries)
    \/ \E q \in SearchTexts, request \in SearchRequests : RetrieveForQuery(q, request)
    \/ \E q \in ClassifiedQueries : ExecuteRetrieval(q)
    \/ \E request \in MultiQueryRequests : MultiQueryRetrieval(request)
    \/ \E request \in AddRequests :
          \E failed_batch \in 0..((Len(request.chunks) + batch_size - 1) \div batch_size) :
              AddDocuments(request, failed_batch)
    \/ ClearCollection
    \/ NextCall
    \/ BatchNext
    \/ Classify
    \/ Decompose
    \/ Retrieve
    \/ RetrieveRaises
    \/ Synthesize
    \/ Return

Spec == Init /\ [][Next]_vars

-----------------------------------------------------------------------------
\* Properties

\* classify_query has returned in the current answer_query invocation
Classified == query_type # None
\* decompose_query has returned in the current answer_query invocation
Decomposed == query_type # None /\ pc # "decompose"

SetOf(seq) == {seq[i] : i \in 1..Len(seq)}

\* C1: answer_query never raises: whatever the query and whichever of the
\* classifier, the decomposer, the index or embedding call, or the synthesizer
\* fails, it returns a record with exactly the fields query, answer, reasoning,
\* sub_queries, sources and confidence; when its own except clause caught the
\* error the confidence is low, and a retrieval error always ends there.
C1_AnswerQueryAlwaysReturnsRecord ==
    /\ pc = "return" =>
         /\ DOMAIN response = ResponseFields
         /\ (trace.caught => response.confidence = <<"l","o","w">>)
    /\ trace.failed_sub # 0 => (trace.caught /\ pc \in {"return", "done", "batch"})

C1_Witness ==
    /\ pc = "return"
    /\ trace.caught
    /\ trace.failed_sub = 2

\* C2: a retrieval failure is isolated to its sub-query: when the index or
\* embedding call raises for one sub-query, that sub-query gets an empty
\* evidence sequence, every other sub-query is still retrieved, synthesis still
\* runs, and the returned answer lists all sub-queries.
C2_RetrievalFailureIsolated ==
    (pc = "return" /\ trace.failed_sub # 0) =>
        /\ Len(trace.synth_llm) = 1
        /\ response.sub_queries = sub_queries
        /\ SetOf(dict_keys(retrieval_results)) = SetOf(sub_queries)
        /\ dict_get(retrieval_results, sub_queries[trace.failed_sub]) = <<>>

\* C3: decompose_query never returns an empty sequence, for every query type,
\* every classification result and every behaviour of the generative model.
C3_DecompositionNeverEmpty ==
    Decomposed => Len(sub_queries) >= 1

\* C4: every text classify_query is called on is one validate_query accepts,
\* whichever operation submitted it.
C4_OnlyValidQueriesClassified ==
    \A i \in 1..Len(trace.classified) : validate_query(trace.classified[i])[1]

\* C5: validate_query rejects a text whose trimmed length is below 5 as too
\* short and, that check passed, one whose length is above 500 as too long;
\* trimmed length 5 and length 500 pass both checks.  A query rejected by
\* process_single_query gets a record with confidence low, no sub_queries and
\* no sources, and classify_query is not called.
C5_LengthChecks ==
    /\ trace.validated # <<>> =>
         LET q == trace.validated[1]
             trimmed == Len(strip(q))
         IN  /\ (trimmed < 5) => (trace.validation = <<FALSE, MsgTooShort>>)
             /\ (trimmed >= 5 /\ Len(q) > 500) => (trace.validation = <<FALSE, MsgTooLong>>)
             /\ (trimmed >= 5 /\ Len(q) <= 500) =>
                    (trace.validation[2] \notin {MsgTooShort, MsgTooLong})
    /\ (entry = "process_single_query" /\ trace.validated # <<>> /\ ~trace.validation[1]) =>
         /\ pc = "done"
         /\ response.confidence = <<"l","o","w">>
         /\ response.sub_queries = <<>>
         /\ response.sources = <<>>
         /\ trace.classified = <<>>

C5_Witness ==
    /\ entry = "process_single_query"
    /\ pc = "done"
    /\ raw_query = QTooLong
    /\ trace.validation = <<FALSE, MsgTooLong>>

\* C6: a text of acceptable length (trimmed length at least 5, length at most
\* 500) with none of the financial keywords in its lower-cased form is rejected
\* as not financial-related, and one with a keyword is accepted;
\* process_single_query answers the rejected query with confidence low and
\* classify_query is not called.
C6_FinancialKeywordCheck ==
    /\ trace.validated # <<>> =>
         LET q == trace.validated[1]
             has_keyword == \E k \in 1..Len(financial_keywords) :
                                contains(lower(q), financial_keywords[k])
         IN  (Len(strip(q)) >= 5 /\ Len(q) <= 500) =>
                IF has_keyword THEN trace.validation = <<TRUE, MsgValid>>
                ELSE trace.validation = <<FALSE, MsgNotFinancial>>
    /\ (entry = "process_single_query" /\ trace.validation = <<FALSE, MsgNotFinancial>>) =>
         /\ pc = "done"
         /\ response.answer = <<"I","n","v","a","l","i","d"," ","q","u","e","r","y",":"," ","Q","u","e","r","y"," ","d","o","e","s","n","'","t"," ","a","p","p","e","a","r"," ","t","o"," ","b","e"," ","f","i","n","a","n","c","i","a","l","-","r","e","l","a","t","e","d">>
         /\ response.confidence = <<"l","o","w">>
         /\ trace.classified = <<>>

C6_Witness ==
    /\ entry = "process_single_query"
    /\ raw_query = QWeather
    /\ pc = "done"
    /\ response.confidence = <<"l","o","w">>
    /\ trace.classified = <<>>

\* C7: "What was Microsoft's total revenue in 2023?" is classified
\* SIMPLE_DIRECT with companies {MSFT} and years {2023} without a
\* generative-model call, its decomposition is the query alone, and the
\* synthesized answer lists exactly that sub-query.
C7_RevenueExample ==
    (query = QRevenue /\ Classified) =>
        /\ query_type = "SIMPLE_DIRECT"
        /\ trace.classify_llm = <<>>
        /\ SetOf(info.years) = {2023}
        /\ Decomposed => sub_queries = <<query>>
        /\ (pc = "return" /\ ~trace.caught) => response.sub_queries = <<query>>
        /\ SetOf(info.companies) = {<<"M","S","F","T">>}

\* C8: "How much did Microsoft's cloud revenue grow from 2022 to 2023?" is
\* classified COMPARATIVE_YOY with years {2022, 2023} and decomposed into
\* sub-queries for 2022 and for 2023 of the detected company and metric,
\* whatever the generative model does.
C8_CloudGrowthExample ==
    (query = QCloudGrowth /\ Classified) =>
        /\ SetOf(info.years) = {2022, 2023}
        /\ query_type = "COMPARATIVE_YOY"
        /\ Decomposed =>
             \A y \in {2022, 2023} :
                \E i \in 1..Len(sub_queries) :
                    /\ contains(sub_queries[i], int_to_str(y))
                    /\ contains(sub_queries[i], info.companies[1])
                    /\ contains(sub_queries[i], info.metrics[1])

\* C9: SIMPLE_DIRECT decomposition is the identity: the result is the query
\* alone, no generative-model call is made, and decomposing the single result
\* again gives the same list.
C9_SimpleDirectIdentity ==
    (Decomposed /\ query_type = "SIMPLE_DIRECT") =>
        /\ sub_queries = <<query>>
        /\ trace.decompose_llm = <<>>
        /\ \A llm \in DecomposeResponses :
              decompose_query(sub_queries[1], "SIMPLE_DIRECT", info, llm).sub_queries = sub_queries

C9_Witness ==
    /\ Decomposed
    /\ query_type = "SIMPLE_DIRECT"
    /\ query = QLongest
    /\ trace.classify_llm # <<>>

\* C10: COMPARATIVE_YOY decomposition with at least two years returns exactly
\* |C| x |M| x |Y| sub-queries "{company} {metric} {year}", one for every
\* company of C (the classified companies, or GOOGL, MSFT, NVDA when none),
\* metric of M (the classified metrics, or "revenue" when none) and year of Y;
\* with fewer than two years it returns the query alone.
C10_YoyDecomposition ==
    (Decomposed /\ query_type = "COMPARATIVE_YOY") =>
        LET C == IF info.companies = <<>> THEN <<<<"G","O","O","G","L">>, <<"M","S","F","T">>, <<"N","V","D","A">>>>
                 ELSE info.companies
            M == IF info.metrics = <<>> THEN <<<<"r","e","v","e","n","u","e">>>> ELSE info.metrics
            Y == info.years
        IN  IF Len(Y) >= 2
            THEN /\ Len(sub_queries) = Len(C) * Len(M) * Len(Y)
                 /\ SetOf(sub_queries) =
                        {C[c] \o <<" ">> \o M[m] \o <<" ">> \o int_to_str(Y[y]) :
                            <<c, m, y>> \in (1..Len(C)) \X (1..Len(M)) \X (1..Len(Y))}
            ELSE sub_queries = <<query>>

\* two years, one company and one metric: two sub-queries, one per year
C10_Witness ==
    /\ Decomposed
    /\ query_type = "COMPARATIVE_YOY"
    /\ Len(info.years) = 2 /\ Len(info.companies) = 1 /\ Len(info.metrics) = 1
    /\ Len(sub_queries) = 2
    /\ contains(sub_queries[1], int_to_str(info.years[1]))
    /\ contains(sub_queries[2], int_to_str(info.years[2]))

\* C11: the generative-model path of classify_query never raises: when no
\* pattern matches, the query is classified all the same, as
\* COMPLEX_MULTI_ASPECT when the model call fails or its response, trimmed and
\* compared without regard to case, is not exactly one of the five category
\* names, and as the named type when it is.
C11_LlmClassificationFallback ==
    (Classified /\ trace.classify_llm # <<>>) =>
        LET r == trace.classify_llm[1]
            names == {<<"SIMPLE_DIRECT", <<"s","i","m","p","l","e","_","d","i","r","e","c","t">>>>,
                      <<"COMPARATIVE_YOY", <<"c","o","m","p","a","r","a","t","i","v","e","_","y","o","y">>>>,
                      <<"CROSS_COMPANY", <<"c","r","o","s","s","_","c","o","m","p","a","n","y">>>>,
                      <<"COMPLEX_MULTI_ASPECT", <<"c","o","m","p","l","e","x","_","m","u","l","t","i","_","a","s","p","e","c","t">>>>,
                      <<"SEGMENT_ANALYSIS", <<"s","e","g","m","e","n","t","_","a","n","a","l","y","s","i","s">>>>}
            named == {n \in names : r.ok /\ lower(strip(r.text)) = n[2]}
        IN  /\ pc \in {"decompose", "retrieve", "return", "done", "batch"}
            /\ IF named = {} THEN query_type = "COMPLEX_MULTI_ASPECT"
               ELSE \E n \in named : query_type = n[1]

\* the response names a category inside a sentence: the fallback type
C11_Witness ==
    /\ Classified
    /\ trace.classify_llm = <<Says(<<"T","h","i","s"," ","i","s"," ","a"," ","C","R","O","S","S","_","C","O","M","P","A","N","Y"," ","q","u","e","r","y",".">>)>>
    /\ query_type = "COMPLEX_MULTI_ASPECT"
    /\ pc = "decompose"

\* the distances of a list of evidence never decrease from one entry to the
\* next, as exact values and as the floats the program compares
Ordered(evidence) ==
    \A i \in 1..(Len(evidence) - 1) :
        /\ evidence[i].distance <= evidence[i + 1].distance
        /\ ~distance_less(evidence[i + 1], evidence[i])

\* C12: every retrieval strategy returns its evidence ordered by
\* non-decreasing distance: semantic, hybrid (by the adjusted distance),
\* company_focused and temporal (across the concatenated per-group results),
\* both when retrieve_for_query is called on its own and returns (a call
\* that ends with an exception returns no evidence) and for the evidence of
\* every sub-query of answer_query.
C12_EvidenceOrderedByDistance ==
    /\ (entry = "retrieve_for_query" /\ pc = "done" /\ ~trace.raised) => Ordered(response)
    /\ \A k \in 1..Len(retrieval_results) : Ordered(retrieval_results[k].value)

\* company_focused: the nearest chunk comes from the second company asked for
C12_Witness ==
    /\ entry = "retrieve_for_query"
    /\ pc = "done"
    /\ ~trace.raised
    /\ info.strategy = "company_focused"
    /\ info.group = <<<<"N","V","D","A">>, <<"M","S","F","T">>>>
    /\ Len(response) = NResults
    /\ response[1].company = <<"M","S","F","T">>
    /\ \E i \in 2..Len(response) : response[i].company = <<"N","V","D","A">>

\* C13: the sources of an answer never hold two entries with the same
\* (company, year, section), whatever the evidence mapping, the same chunk
\* retrieved under several sub-queries included.
C13_SourcesAreDistinct ==
    pc = "return" =>
        \A i, j \in 1..Len(response.sources) :
            (i # j) =>
                <<response.sources[i].company, response.sources[i].year, response.sources[i].section>>
                # <<response.sources[j].company, response.sources[j].year, response.sources[j].section>>

\* two sub-queries whose best evidence is the same chunk, listed once
C13_Witness ==
    /\ pc = "return"
    /\ ~trace.caught
    /\ Len(retrieval_results) >= 2
    /\ Len(retrieval_results[1].value) >= 1
    /\ Len(retrieval_results[2].value) >= 1
    /\ LET a == retrieval_results[1].value[1]
           b == retrieval_results[2].value[1]
       IN  <<a.company, a.year, a.section>> = <<b.company, b.year, b.section>>
    /\ Len(response.sources) >= 2

\* C14: the confidence of every answer returned by answer_query or
\* process_single_query is one of high, medium, low, whatever text the
\* generative model puts in its CONFIDENCE field.
C14_ConfidenceIsOneOfThree ==
    (pc = "return" \/ (pc = "done" /\ entry = "process_single_query")) =>
        response.confidence \in {<<"h","i","g","h">>, <<"m","e","d","i","u","m">>, <<"l","o","w">>}

\* C15: batch_answer_queries answers its queries one at a time in input
\* order: the results so far are the answers to the first queries of the
\* input, the queries still to do are the rest of it, classification has
\* started for no query beyond the one being answered, and it returns exactly
\* one result per query, the i-th for the i-th query; an answer that came from
\* the except clause does not stop the later queries from being answered.
C15_BatchInOrder ==
    entry = "batch_answer_queries" =>
        LET n == Len(trace.batch)
            done == Len(results)
        IN  /\ done + Len(pending) = n
            /\ pending = SubSeq(trace.batch, done + 1, n)
            /\ \A i \in 1..done :
                  /\ DOMAIN results[i] = ResponseFields
                  /\ results[i].query = trace.batch[i]
            /\ Len(trace.classified) \in {done, done + 1}
            /\ trace.classified = SubSeq(trace.batch, 1, Len(trace.classified))
            /\ (pc = "batch" /\ done > 0) => results[done] = response
            /\ (pc = "done") => (done = n /\ response = results)

\* the first query fails in retrieval, the second is answered all the same
C15_Witness ==
    /\ entry = "batch_answer_queries"
    /\ pc = "done"
    /\ Len(results) = 2
    /\ results[1] = answer_query_except(QRevenue, IndexErrorText)
    /\ results[2].query = QRevenue
    /\ results[2].sub_queries = <<QRevenue>>
    /\ results[2].sources # <<>>

\* what holds at each stage of an answer_query invocation
StageInvariant ==
    /\ pc = "classify" =>
         (query_type = None /\ sub_queries = <<>> /\ retrieval_results = <<>>
          /\ trace.synth_llm = <<>>)
    /\ pc = "decompose" =>
         (Classified /\ sub_queries = <<>> /\ retrieval_results = <<>> /\ trace.synth_llm = <<>>)
    /\ pc = "retrieve" =>
         (Decomposed /\ trace.synth_llm = <<>>
          /\ SetOf(dict_keys(retrieval_results)) = SetOf(SubSeq(sub_queries, 1, next_sub - 1)))
    /\ Len(trace.synth_llm) <= 1
    /\ trace.synth_llm # <<>> =>
         (pc \in {"return", "done", "batch"} /\ ~trace.caught /\ Decomposed
          /\ SetOf(dict_keys(retrieval_results)) = SetOf(sub_queries))

\* the stage changes of an invocation (done to idle is the caller going on to
\* its next call), and the step in which synthesis calls the generative model
StageStep ==
    /\ pc' # pc =>
         <<pc, pc'>> \in {<<"idle", "classify">>, <<"batch", "classify">>,
                          <<"classify", "decompose">>, <<"decompose", "retrieve">>,
                          <<"retrieve", "return">>, <<"return", "done">>,
                          <<"return", "batch">>, <<"idle", "batch">>, <<"batch", "done">>,
                          <<"idle", "done">>, <<"done", "idle">>}
    /\ (trace'.synth_llm # trace.synth_llm /\ trace'.synth_llm # <<>>) =>
         /\ pc = "retrieve" /\ pc' = "return"
         /\ trace.synth_llm = <<>>
         /\ Len(trace'.synth_llm) = 1
         /\ \A i \in 1..Len(sub_queries) :
               \E k \in 1..Len(retrieval_results) : retrieval_results[k].key = sub_queries[i]

\* C16: within one answer_query invocation the stages run strictly in the
\* order classify, decompose, retrieve every sub-query, synthesize: synthesis
\* starts only when every sub-query of the decomposition has an entry in the
\* evidence mapping, runs at most once, and makes exactly one
\* generative-model call.
C16_StagesInOrder == []StageInvariant /\ [][StageStep]_vars

C16_Witness ==
    /\ pc = "return"
    /\ Len(trace.synth_llm) = 1
    /\ Len(sub_queries) = 12
    /\ Len(retrieval_results) = 12
    /\ Len(response.sub_queries) = 12

\* C17: rule-based classification is first match wins in the order
\* SIMPLE_DIRECT, COMPARATIVE_YOY, CROSS_COMPANY, SEGMENT_ANALYSIS: a query
\* that patterns of several types match gets the earliest of them, the
\* rule-based step never gives COMPLEX_MULTI_ASPECT, and the generative model
\* is called for classification exactly when no pattern matches.  Stated of
\* the state classify_query returns in.
C17_FirstMatchWins ==
    pc = "decompose" =>
        LET tbl == patterns(lower(query))
            found == {tbl[k].type : k \in {j \in 1..Len(tbl) : tbl[j].found}}
            by_patterns == _classify_by_patterns(lower(query))
        IN  /\ "SIMPLE_DIRECT" \in found => query_type = "SIMPLE_DIRECT"
            /\ ("COMPARATIVE_YOY" \in found /\ "SIMPLE_DIRECT" \notin found) =>
                  query_type = "COMPARATIVE_YOY"
            /\ ("CROSS_COMPANY" \in found
                /\ found \cap {"SIMPLE_DIRECT", "COMPARATIVE_YOY"} = {}) =>
                  query_type = "CROSS_COMPANY"
            /\ ("SEGMENT_ANALYSIS" \in found
                /\ found \cap {"SIMPLE_DIRECT", "COMPARATIVE_YOY", "CROSS_COMPANY"} = {}) =>
                  query_type = "SEGMENT_ANALYSIS"
            /\ found \subseteq {"SIMPLE_DIRECT", "COMPARATIVE_YOY", "CROSS_COMPANY",
                                "SEGMENT_ANALYSIS"}
            /\ by_patterns # "COMPLEX_MULTI_ASPECT"
            /\ (found = {}) <=> (by_patterns = None)
            /\ (found = {}) <=> (Len(trace.classify_llm) = 1)
            /\ (found # {}) <=> (trace.classify_llm = <<>>)

\* patterns of three types match; the earliest type is returned
C17_Witness ==
    /\ pc = "decompose"
    /\ query = QYoyCrossSegment
    /\ query_type = "COMPARATIVE_YOY"
    /\ trace.classify_llm = <<>>
    /\ \A t \in 2..4 : patterns(lower(query))[t].found

\* C18: the companies classify_query extracts hold each mentioned company
\* exactly once, however many of its aliases occur in the query.
C18_CompaniesListedOnce ==
    Classified =>
        \A i, j \in 1..Len(info.companies) :
            (i # j) => info.companies[i] # info.companies[j]

\* C19: CROSS_COMPANY decomposition returns exactly |C| x |M| sub-queries
\* "{company} {metric} {year}", one for every company of C (the classified
\* companies, or GOOGL, MSFT, NVDA when the classification has none) and metric
\* of M (the classified metrics, or "operating margin" when none), with the
\* first extracted year, or 2023 when there is none.
C19_CrossCompanyDecomposition ==
    (Decomposed /\ query_type = "CROSS_COMPANY") =>
        LET C == IF info.companies = <<>> THEN <<<<"G","O","O","G","L">>, <<"M","S","F","T">>, <<"N","V","D","A">>>>
                 ELSE info.companies
            M == IF info.metrics = <<>> THEN <<<<"o","p","e","r","a","t","i","n","g"," ","m","a","r","g","i","n">>>> ELSE info.metrics
            year == IF info.years = <<>> THEN 2023 ELSE info.years[1]
        IN  /\ SetOf(sub_queries) =
                  {C[c] \o <<" ">> \o M[m] \o <<" ">> \o int_to_str(year) :
                      <<c, m>> \in (1..Len(C)) \X (1..Len(M))}
            /\ Len(sub_queries) = Len(C) * Len(M)

\* the list subs holds, for each company of C in turn, its total-revenue
\* sub-query followed by its segment-breakdown sub-query for the year
TwoPerCompany(subs, C, year) ==
    /\ Len(subs) = 2 * Len(C)
    /\ \A i \in 1..Len(C) :
          /\ subs[2 * i - 1] = C[i] \o <<" ","t","o","t","a","l"," ","r","e","v","e","n","u","e"," ">> \o int_to_str(year)
          /\ subs[2 * i] = C[i] \o <<" ","s","e","g","m","e","n","t"," ","r","e","v","e","n","u","e"," ","b","r","e","a","k","d","o","w","n"," ">> \o int_to_str(year)

\* the companies a segment query is decomposed for when the classification
\* has none: the first of google, microsoft, nvidia named in the query, else
\* all three
CompaniesByName(q) ==
    IF contains(lower(q), <<"g","o","o","g","l","e">>) THEN <<<<"G","O","O","G","L">>>>
    ELSE IF contains(lower(q), <<"m","i","c","r","o","s","o","f","t">>) THEN <<<<"M","S","F","T">>>>
    ELSE IF contains(lower(q), <<"n","v","i","d","i","a">>) THEN <<<<"N","V","D","A">>>>
    ELSE <<<<"G","O","O","G","L">>, <<"M","S","F","T">>, <<"N","V","D","A">>>>

\* C20: SEGMENT_ANALYSIS decomposition returns exactly two sub-queries per
\* resolved company, "{company} total revenue {year}" then "{company} segment
\* revenue breakdown {year}", the companies being the classified ones, else
\* the one named in the query, else GOOGL, MSFT, NVDA, and the year the first
\* extracted year or 2023; it makes no generative-model call.  Stated of the
\* decomposition made in answer_query and of the same query decomposed with a
\* classification that holds no company.
C20_SegmentDecomposition ==
    (Decomposed /\ query_type = "SEGMENT_ANALYSIS") =>
        LET year == IF info.years = <<>> THEN 2023 ELSE info.years[1]
            no_company == [info EXCEPT !.companies = <<>>]
        IN  /\ TwoPerCompany(sub_queries,
                             IF info.companies = <<>> THEN CompaniesByName(query)
                             ELSE info.companies, year)
            /\ trace.decompose_llm = <<>>
            /\ \A llm \in DecomposeResponses :
                  LET d == decompose_query(query, "SEGMENT_ANALYSIS", no_company, llm)
                  IN  d.llm_calls = 0 /\ TwoPerCompany(d.sub_queries, CompaniesByName(query), year)

\* no company classified or named, no year: all three companies for 2023
C20_Witness ==
    /\ Decomposed
    /\ query_type = "SEGMENT_ANALYSIS"
    /\ info.companies = <<>> /\ info.years = <<>>
    /\ Len(sub_queries) = 6
    /\ sub_queries[1] = <<"G","O","O","G","L"," ","t","o","t","a","l"," ","r","e","v","e","n","u","e"," ","2","0","2","3">>
    /\ sub_queries[6] = <<"N","V","D","A"," ","s","e","g","m","e","n","t"," ","r","e","v","e","n","u","e"," ","b","r","e","a","k","d","o","w","n"," ","2","0","2","3">>

\* the non-empty lines of a response, trimmed, in order
NonEmptyLines(text) ==
    LET lines == split_on(strip(text), "\n")
    IN  SelectSeq([i \in 1..Len(lines) |-> strip(lines[i])], LAMBDA line : Len(line) > 0)

\* ... without those that start with "Sub-queries"
KeptLines(text) ==
    SelectSeq(NonEmptyLines(text), LAMBDA line : ~startswith(line, <<"S","u","b","-","q","u","e","r","i","e","s">>))

IsSuffix(s, t) == Len(s) <= Len(t) /\ s = SubSeq(t, Len(t) - Len(s) + 1, Len(t))

\* C21 as stated: COMPLEX_MULTI_ASPECT decomposition returns one sub-query per
\* non-empty line of the model's response, and [query] when the response has
\* no non-empty line.
C21_OnePerNonEmptyLine ==
    (Decomposed /\ query_type = "COMPLEX_MULTI_ASPECT" /\ trace.decompose_llm # <<>>
     /\ trace.decompose_llm[1].ok) =>
        LET lines == NonEmptyLines(trace.decompose_llm[1].text)
        IN  IF lines = <<>> THEN sub_queries = <<query>>
            ELSE Len(sub_queries) = Len(lines)

\* C21, amended: COMPLEX_MULTI_ASPECT decomposition calls the generative model
\* once and never raises.  When the call fails, or the response has no
\* non-empty line other than lines starting with "Sub-queries", the result is
\* [query]; otherwise it is one sub-query per non-empty line that does not
\* start with "Sub-queries", in line order, each the rest of its line after
\* a leading "N." marker, then a leading "-" marker, and the blanks after
\* them.  No other query type calls the model during decomposition.
C21_ComplexDecomposition ==
    Decomposed =>
        IF query_type # "COMPLEX_MULTI_ASPECT" THEN trace.decompose_llm = <<>>
        ELSE /\ Len(trace.decompose_llm) = 1
             /\ LET r == trace.decompose_llm[1]
                    kept == IF r.ok THEN KeptLines(r.text) ELSE <<>>
                IN  /\ kept = <<>> => sub_queries = <<query>>
                    /\ kept # <<>> =>
                          /\ Len(sub_queries) = Len(kept)
                          /\ \A i \in 1..Len(kept) :
                                /\ IsSuffix(sub_queries[i], kept[i])
                                /\ sub_queries[i] = strip(sub_queries[i])
                    /\ r = Says(<<"1","."," ","M","S","F","T"," ","r","e","v","e","n","u","e"," ","2","0","2","3","\n","2","."," ","M","S","F","T"," ","r","e","v","e","n","u","e"," ","2","0","2","2">>) =>
                          sub_queries = <<<<"M","S","F","T"," ","r","e","v","e","n","u","e"," ","2","0","2","3">>, <<"M","S","F","T"," ","r","e","v","e","n","u","e"," ","2","0","2","2">>>>
                    /\ r = Says(<<"S","u","b","-","q","u","e","r","i","e","s",":","\n","-"," ","G","O","O","G","L"," ","o","p","e","r","a","t","i","n","g"," ","m","a","r","g","i","n"," ","2","0","2","3","\n","\n","2",".","\n","-">>) =>
                          sub_queries = <<<<"G","O","O","G","L"," ","o","p","e","r","a","t","i","n","g"," ","m","a","r","g","i","n"," ","2","0","2","3">>, <<>>, <<>>>>
                    /\ r = Says(<<"S","u","b","-","q","u","e","r","i","e","s",":","\n">>) => sub_queries = <<query>>

\* a response that repeats the "Sub-queries:" heading of the prompt
C21_Witness ==
    /\ Decomposed
    /\ query_type = "COMPLEX_MULTI_ASPECT"
    /\ trace.decompose_llm = <<Says(<<"S","u","b","-","q","u","e","r","i","e","s",":","\n","-"," ","G","O","O","G","L"," ","o","p","e","r","a","t","i","n","g"," ","m","a","r","g","i","n"," ","2","0","2","3","\n","\n","2",".","\n","-">>)>>
    /\ Len(sub_queries) = 3
    /\ sub_queries[1] = <<"G","O","O","G","L"," ","o","p","e","r","a","t","i","n","g"," ","m","a","r","g","i","n"," ","2","0","2","3">>

\* the strategy, the companies or years, and n_results of the claim
C22_Selection(cinfo) ==
    IF cinfo.type = "CROSS_COMPANY"
    THEN [strategy |-> "company_focused",
          group |-> IF cinfo.companies = <<>> THEN <<<<"G","O","O","G","L">>, <<"M","S","F","T">>, <<"N","V","D","A">>>>
                    ELSE cinfo.companies]
    ELSE IF cinfo.type = "COMPARATIVE_YOY" /\ cinfo.years # <<>>
    THEN [strategy |-> "temporal", group |-> cinfo.years]
    ELSE [strategy |-> "hybrid", group |-> <<>>]

\* the searches a call has had answered are the first of those a retrieval
\* with the claim's strategy issues
AnsweredOf(sel) ==
    LET issued == IssuedSearches(sel.strategy, sel.group, 6)
    IN  /\ Len(trace.requested) <= Len(issued)
        /\ trace.requested = Take(issued, Len(trace.requested))
        /\ ~trace.raised => trace.requested = issued

\* C22: for every sub-query _execute_retrieval is called with, the searches
\* it issues and the evidence it returns are those of company_focused over
\* the classified companies (over GOOGL, MSFT, NVDA when the classification
\* has none) for CROSS_COMPANY, of temporal over the classified years for
\* COMPARATIVE_YOY with a year, and of hybrid otherwise, with n_results 6;
\* the same holds of the evidence answer_query stores for each sub-query.
C22_StrategySelection ==
    /\ (entry = "_execute_retrieval" /\ pc = "done") =>
          /\ AnsweredOf(C22_Selection(info))
          /\ ~trace.raised =>
                LET sel == C22_Selection(info)
                IN  response = retrieve_for_query(collection, raw_query, sel.strategy,
                                                  sel.group, 6)
    /\ (entry = "answer_query" /\ pc = "retrieve") =>
          \A k \in 1..Len(retrieval_results) :
              LET sel == C22_Selection(info)
              IN  retrieval_results[k].value =
                      retrieve_for_query(collection, retrieval_results[k].key,
                                         sel.strategy, sel.group, 6)

\* a year-over-year sub-query retrieved with temporal over its two years:
\* two searches of four results each, and evidence of those years only
C22_Witness ==
    /\ entry = "_execute_retrieval"
    /\ pc = "done"
    /\ ~trace.raised
    /\ info.type = "COMPARATIVE_YOY"
    /\ Len(info.years) = 2
    /\ trace.requested = <<4, 4>>
    /\ Len(response) > 0
    /\ \A i \in 1..Len(response) : response[i].year \in SetOf(info.years)

\* a company_focused or temporal retrieval has ended, by returning or with
\* an exception
GroupRetrievalDone ==
    /\ entry = "retrieve_for_query"
    /\ pc = "done"
    /\ info.strategy \in {"company_focused", "temporal"}

\* C23 as stated: with n requested results and g companies (or years), each
\* filtered search asks for ceil(n / g) + 1 items and at most n are returned.
C23_PerGroupCeiling ==
    GroupRetrievalDone =>
        LET n == info.n_results
            g == Len(info.group)
        IN  /\ Len(trace.requested) <= g
            /\ \A i \in 1..Len(trace.requested) :
                  LET k == trace.requested[i] - 1      \* k = ceil(n / g)
                  IN  (k - 1) * g < n /\ n <= k * g
            /\ ~trace.raised => (Len(trace.requested) = g /\ Len(response) <= n)

\* C23, amended: with n requested results and g companies (or years), each
\* filtered search asks for floor(n / g) + 1 items, and a retrieval that
\* returns has made one search per company (or year) and returns at most n
\* results; one that ends with an exception has made fewer searches.
C23_PerGroupFloor ==
    GroupRetrievalDone =>
        LET n == info.n_results
            g == Len(info.group)
        IN  /\ Len(trace.requested) <= g
            /\ \A i \in 1..Len(trace.requested) :
                  LET k == trace.requested[i] - 1      \* k = floor(n / g)
                  IN  k * g <= n /\ n < (k + 1) * g
            /\ ~trace.raised => (Len(trace.requested) = g /\ Len(response) <= n)
            /\ trace.raised => Len(trace.requested) < g

\* two results asked of three companies: one item per company, three found,
\* two returned
C23_Witness ==
    /\ GroupRetrievalDone
    /\ ~trace.raised
    /\ info.strategy = "company_focused"
    /\ info.n_results = 2
    /\ Len(info.group) = 3
    /\ trace.requested = <<1, 1, 1>>
    /\ Len(response) = 2

\* a hybrid retrieval has returned
HybridDone ==
    /\ entry = "retrieve_for_query"
    /\ pc = "done"
    /\ ~trace.raised
    /\ info.strategy = "hybrid"

\* the distance the index gave the chunk a result was made from, in
\* hundred-thousandths as the distance of a result is
OriginalDistance(r) ==
    LET corpus == collection
        c == CHOOSE c \in 1..Len(corpus) :
                /\ corpus[c].text = r.text
                /\ corpus[c].company = r.company
                /\ str_to_int(corpus[c].year) = r.year
                /\ corpus[c].section = r.section
    IN  (DistanceOne \div IndexDistanceOne) * corpus[c].dist[EmbeddingClass(raw_query)]

\* how many of the six keywords the query and the text of a result share
SharedKeywords(r) ==
    Cardinality({kw \in {<<"r","e","v","e","n","u","e">>, <<"i","n","c","o","m","e">>, <<"p","r","o","f","i","t">>, <<"m","a","r","g","i","n">>, <<"e","a","r","n","i","n","g","s">>, <<"s","a","l","e","s">>} :
                    contains(lower(raw_query), kw) /\ contains(lower(r.text), kw)})

\* every result of a hybrid retrieval has its distance reduced by 10% per
\* shared keyword, which leaves it between 0 and the original distance
ReducedPerKeyword ==
    \A i \in 1..Len(response) :
        LET Reduced(r, k, original) ==
                /\ k \in 0..6
                /\ 10 * r.distance = original * (10 - k)
                /\ 0 <= r.distance
                /\ r.distance <= original
        IN  Reduced(response[i], SharedKeywords(response[i]), OriginalDistance(response[i]))

\* C24 as stated: every result of a hybrid retrieval has its distance reduced
\* by 10% per shared keyword, which leaves it between 0 and the original
\* distance, and of two results with equal original distance the one that
\* shares more keywords with the query comes first.
C24_HybridReRanking ==
    HybridDone =>
        /\ ReducedPerKeyword
        /\ \A i, j \in 1..Len(response) :
              (/\ OriginalDistance(response[i]) = OriginalDistance(response[j])
               /\ SharedKeywords(response[i]) > SharedKeywords(response[j])) => i < j

\* C24, amended: every result of a hybrid retrieval has its distance reduced
\* by 10% per shared keyword, which leaves it between 0 and the original
\* distance, and of two results with equal original distance above 0 the one
\* that shares more keywords with the query comes first.
C24_HybridReRankingAboveZero ==
    HybridDone =>
        /\ ReducedPerKeyword
        /\ \A i, j \in 1..Len(response) :
              (/\ OriginalDistance(response[i]) = OriginalDistance(response[j])
               /\ OriginalDistance(response[i]) > 0
               /\ SharedKeywords(response[i]) > SharedKeywords(response[j])) => i < j

\* two chunks at the same distance from the query: the one sharing all six
\* keywords is returned first, at four tenths of its distance
C24_Witness ==
    /\ HybridDone
    /\ \E i, j \in 1..Len(response) :
          /\ i < j
          /\ OriginalDistance(response[i]) = OriginalDistance(response[j])
          /\ SharedKeywords(response[i]) > SharedKeywords(response[j])
          /\ response[i].distance < OriginalDistance(response[i])
          /\ SharedKeywords(response[i]) = 6
          /\ SharedKeywords(response[j]) = 0
          /\ 10 * response[i].distance = 4 * OriginalDistance(response[i])

\* multi_query_retrieval has returned a list: the call raises instead when a
\* search fails, and with queries and a strategy that needs companies or years
MultiQueryDone ==
    /\ entry = "multi_query_retrieval"
    /\ pc = "done"
    /\ ~trace.raised

\* what a single query of the call returns
ReturnedFor(q) ==
    retrieve_for_query(collection, info.queries[q], info.strategy, <<>>, info.n_results)

\* two results are the same indexed chunk
SameChunk(r, s) ==
    r.text = s.text /\ r.company = s.company /\ r.year = s.year /\ r.section = s.section

\* C25: the output of multi_query_retrieval holds every chunk returned for
\* any of its queries exactly once, tagged with the first query that returned
\* it, in order of non-decreasing distance.
C25_EveryChunkOnce ==
    MultiQueryDone =>
        /\ \A q \in 1..Len(info.queries) : \A i \in 1..Len(ReturnedFor(q)) :
              LET r == ReturnedFor(q)[i]
                  first == CHOOSE p \in 1..q :
                              /\ \E j \in 1..Len(ReturnedFor(p)) : SameChunk(ReturnedFor(p)[j], r)
                              /\ \A o \in 1..(p - 1) :
                                    \A j \in 1..Len(ReturnedFor(o)) : ~SameChunk(ReturnedFor(o)[j], r)
              IN  /\ Cardinality({k \in 1..Len(response) : SameChunk(response[k], r)}) = 1
                  /\ \A k \in 1..Len(response) :
                        SameChunk(response[k], r) => response[k].source_query = info.queries[first]
        /\ \A k \in 1..(Len(response) - 1) : response[k].distance <= response[k + 1].distance

SourceKey(r) == <<r.company, r.year, r.section>>

\* the evidence items sources are made from: the first two of each sub-query
SourceCandidates ==
    {<<k, j>> \in (1..Len(retrieval_results)) \X (1..2) : j <= Len(retrieval_results[k].value)}

Candidate(c) == retrieval_results[c[1]].value[c[2]]

\* the first candidate, in sub-query order, with its (company, year, section)
IsFirstCandidate(c) ==
    \A d \in SourceCandidates :
        (d[1] < c[1] \/ (d[1] = c[1] /\ d[2] < c[2])) => SourceKey(Candidate(d)) # SourceKey(Candidate(c))

\* C26: an answer has at most five sources, each made from one of the first
\* two evidence items of a sub-query, and no candidate left out of the list
\* has a strictly higher relevance_score than a source kept in it.
C26_TopFiveByRelevance ==
    (pc = "return" /\ ~trace.caught) =>
        /\ Len(response.sources) <= 5
        /\ \A i \in 1..Len(response.sources) :
              \E c \in SourceCandidates : SourceKey(Candidate(c)) = SourceKey(response.sources[i])
        /\ \A c \in SourceCandidates :
              (/\ IsFirstCandidate(c)
               /\ \A i \in 1..Len(response.sources) :
                     SourceKey(response.sources[i]) # SourceKey(Candidate(c)))
              => \A i \in 1..Len(response.sources) :
                    relevance_score(Candidate(c))
                        <= response.sources[i].relevance_score

\* synthesis has run and its answer is about to be returned
Synthesized == pc = "return" /\ ~trace.caught /\ Len(trace.synth_llm) = 1

\* the model's response has no ANSWER field
NoAnswerField(text) == ~contains(text, <<"A","N","S","W","E","R",":">>)

\* the answer when the synthesis call raises
C27_ErrorHandled ==
    /\ response.answer = <<"E","r","r","o","r"," ","o","c","c","u","r","r","e","d"," ","d","u","r","i","n","g"," ","s","y","n","t","h","e","s","i","s">>
    /\ response.reasoning = <<"S","y","n","t","h","e","s","i","s"," ","e","r","r","o","r",":"," ">> \o trace.synth_llm[1].text
    /\ response.confidence = <<"l","o","w">>

\* C27 as stated: when the model's response has no ANSWER field the answer
\* is the entire raw response, with reasoning "Generated from available
\* context" and confidence medium; when the call raises, the error answer.
C27_RawResponseFallback ==
    Synthesized =>
        LET r == trace.synth_llm[1]
        IN  /\ (r.ok /\ NoAnswerField(r.text)) =>
                  /\ response.answer = r.text
                  /\ response.reasoning = <<"G","e","n","e","r","a","t","e","d"," ","f","r","o","m"," ","a","v","a","i","l","a","b","l","e"," ","c","o","n","t","e","x","t">>
                  /\ response.confidence = <<"m","e","d","i","u","m">>
            /\ ~r.ok => C27_ErrorHandled

\* C27, amended: when the model's response has no ANSWER field the answer is
\* the entire response with its leading and trailing whitespace removed, the
\* reasoning is "Generated from available context" and the confidence is
\* medium, even when the response has a REASONING or CONFIDENCE field of its
\* own; when the call raises, the answer is the error message, the reasoning
\* names the error, the confidence is low, and the model is called only once.
C27_StrippedResponseFallback ==
    (pc = "return" /\ ~trace.caught) =>
        /\ Len(trace.synth_llm) = 1
        /\ LET r == trace.synth_llm[1]
           IN  /\ (r.ok /\ NoAnswerField(r.text)) =>
                     /\ response.answer = strip(r.text)
                     /\ response.reasoning = <<"G","e","n","e","r","a","t","e","d"," ","f","r","o","m"," ","a","v","a","i","l","a","b","l","e"," ","c","o","n","t","e","x","t">>
                     /\ response.confidence = <<"m","e","d","i","u","m">>
               /\ ~r.ok => C27_ErrorHandled

\* a response with REASONING and CONFIDENCE of its own and no ANSWER
C27_Witness ==
    /\ Synthesized
    /\ trace.synth_llm[1] = Says(<<"R","E","A","S","O","N","I","N","G",":"," ","n","o","t","h","i","n","g"," ","f","o","u","n","d","\n","C","O","N","F","I","D","E","N","C","E",":"," ","l","o","w">>)
    /\ response.answer = <<"R","E","A","S","O","N","I","N","G",":"," ","n","o","t","h","i","n","g"," ","f","o","u","n","d","\n","C","O","N","F","I","D","E","N","C","E",":"," ","l","o","w">>
    /\ response.confidence = <<"m","e","d","i","u","m">>

\* the retrieval loop finished and left some sub-query without evidence
EmptyEvidenceReturned ==
    /\ pc = "return"
    /\ ~trace.caught
    /\ \E k \in 1..Len(retrieval_results) : retrieval_results[k].value = <<>>

\* C28: when retrieval returns no evidence for some or all sub-queries,
\* synthesis still runs and the answer lists the decomposition as its
\* sub-queries; a sub-query without evidence has no heading in the context
\* and no source, and when every sub-query is without evidence the context
\* is empty and sources is [].
C28_EmptyEvidenceIsNotFailure ==
    EmptyEvidenceReturned =>
        /\ Len(trace.synth_llm) = 1
        /\ response.sub_queries = sub_queries
        /\ \A k \in 1..Len(retrieval_results) :
              retrieval_results[k].value = <<>> =>
                  ~contains(trace.context, <<"R","e","s","u","l","t","s"," ","f","o","r"," ","'">> \o retrieval_results[k].key \o <<"'",":">>)
        /\ \A i \in 1..Len(response.sources) :
              \E k \in 1..Len(retrieval_results) : \E j \in 1..Len(retrieval_results[k].value) :
                  /\ response.sources[i].company = retrieval_results[k].value[j].company
                  /\ response.sources[i].year = retrieval_results[k].value[j].year
                  /\ response.sources[i].section = retrieval_results[k].value[j].section
        /\ (\A k \in 1..Len(retrieval_results) : retrieval_results[k].value = <<>>) =>
              /\ trace.context = <<>>
              /\ response.sources = <<>>

\* an indexed collection, a filter no chunk satisfies: the model's answer is
\* returned with the two sub-queries and no sources
C28_Witness ==
    /\ EmptyEvidenceReturned
    /\ Len(collection) > 0
    /\ Len(sub_queries) >= 2
    /\ \A k \in 1..Len(retrieval_results) : retrieval_results[k].value = <<>>
    /\ trace.synth_llm[1].ok
    /\ response.answer = <<"R","e","v","e","n","u","e"," ","w","a","s"," ","$","2","1","1",".","9"," ","b","i","l","l","i","o","n",".">>
    /\ response.sub_queries = sub_queries
    /\ response.sources = <<>>

\* the company values chunks are indexed under
IndexedCompanies == {<<"G","O","O","G","L">>, <<"M","S","F","T">>, <<"N","V","D","A">>}

\* C29: the companies of a classification, which the decomposer puts in
\* sub-queries and company_focused retrieval uses as filters, are all among
\* GOOGL, MSFT, NVDA, and a CROSS_COMPANY query that names a company gets
\* evidence from the indexed filings.
C29_CompaniesAreIndexedValues ==
    Classified =>
        /\ \A i \in 1..Len(info.companies) : info.companies[i] \in IndexedCompanies
        /\ (/\ pc = "return"
            /\ ~trace.caught
            /\ query_type = "CROSS_COMPANY"
            /\ info.companies # <<>>
            /\ collection = corpus_filings)
           => \E k \in 1..Len(retrieval_results) : retrieval_results[k].value # <<>>

\* C30: every sub-query decompose_query returns is a non-empty string,
\* whatever the query type and the generative model's response.
C30_SubQueriesNonEmpty ==
    Decomposed => \A i \in 1..Len(sub_queries) : Len(sub_queries[i]) > 0

====
